---- MODULE Spec2Model ----
(***************************************************************************)
(* Model of the MorningMeditations daily-reflection service:               *)
(*   - QuoteLoader (src/lambda/quote_loader.py): date -> quote lookup,     *)
(*     per-loader dataset cache, completeness validation;                  *)
(*   - validate_quotes_database (src/validate_quotes.py);                  *)
(*   - QuoteTracker (src/lambda/quote_tracker.py): the history archive     *)
(*     kept as one JSON document in the object store.                      *)
(***************************************************************************)
EXTENDS Integers, Sequences, FiniteSets, TLC

VARIABLES
    s3_quotes,      \* object config/stoic_quotes_365_days.json of the bucket
    loaders,        \* QuoteLoader instances of the process: id -> _quotes_cache
    db_loads,       \* successful loads of the dataset from the store in this process
    outcome,        \* what the last resolver-side call was and what it returned
    s3_history,     \* object quote_history.json of the bucket
    history,        \* the caller's in-memory history dict (or NotLoaded)
    appended,       \* arguments of the add_quote calls since the last load, in call order
    origin,         \* the stored history object the last load_history call met
    persisted,      \* origin and appended as they were at the last successful save
    s3_calls,       \* get_object / put_object calls made by the last tracker call
    tracker_outcome, \* what the last tracker call was and how it ended
    now,            \* the wall clock, what datetime.now() returns
    scan_call,      \* arguments and result of the last month scan or cleanup call
    runs,           \* the lambda_handler invocations: where each is and its locals
    started,        \* invocations started so far
    ledger,         \* the entries the invocations have saved, in save order
    log,            \* the store calls of the invocations that succeeded, in order
    sending,        \* per invocation: its recipients, send attempts, counts, error
    api_call,       \* the last request to the reflections API and its response
    theme_call,     \* the last call of a themes.py function and what it returned
    email_check     \* the last validate_email_content call and its result

resolverVars == <<s3_quotes, loaders, db_loads, outcome>>
archiveVars  == <<s3_history, history, appended, origin, persisted, s3_calls,
                  tracker_outcome, now, scan_call>>
handlerVars  == <<runs, started, ledger, log, sending>>
serviceVars  == <<api_call, theme_call, email_check>>
vars == <<s3_quotes, loaders, db_loads, outcome,
          s3_history, history, appended, origin, persisted, s3_calls, tracker_outcome,
          now, scan_call, runs, started, ledger, log, sending,
          api_call, theme_call, email_check>>

(***************************************************************************)
(* Bounds of the model.                                                    *)
(***************************************************************************)
MaxLookupDefects == 1   \* defects in a dataset the lookups are run against
MaxDefects == 2         \* defects in a dataset the integrity checks are run against
MaxLoaders == 2         \* QuoteLoader instances alive in one process
MaxDbLoads == 3         \* successful dataset loads counted in one process
MaxEntries == 3         \* entries of an in-memory history
MaxScanEntries == 2     \* entries of a history the scans are run against
MaxRuns == 3            \* lambda_handler invocations started in one behaviour

(***************************************************************************)
(* Calendar and dataset values.                                            *)
(***************************************************************************)
\* date.strftime('%B').lower() for month numbers 1..12
MonthNames ==
    <<"january", "february", "march", "april", "may", "june", "july",
      "august", "september", "october", "november", "december">>

Months == {MonthNames[i] : i \in 1..12}

\* the expected_days table of both integrity checks (non-leap year)
expected_days ==
    [january |-> 31, february |-> 28, march |-> 31, april |-> 30,
     may |-> 31, june |-> 30, july |-> 31, august |-> 31,
     september |-> 30, october |-> 31, november |-> 30, december |-> 31]

required_fields == <<"day", "theme", "quote", "attribution">>

\* A text is a sequence of tokens; the empty text is <<>>.
QuoteText(m, d, v) == <<"quote", m, d, v>>
AttributionText(m, d, v) == <<"attribution", m, d, v>>
ThemeText(m) == <<"theme", m>>

\* One record of the dataset document; v tells a second copy of a day from the first.
QuoteRecord(m, d, v) ==
    [day |-> d, theme |-> ThemeText(m),
     quote |-> QuoteText(m, d, v), attribution |-> AttributionText(m, d, v)]

\* The dataset as authored: one record per day of the non-leap year, in day order.
CompleteDataset ==
    [m \in Months |-> [d \in 1..expected_days[m] |-> QuoteRecord(m, d, 0)]]

(***************************************************************************)
(* Dataset documents the checks are run against: the authored dataset     *)
(* with a bounded number of authoring defects.                            *)
(***************************************************************************)
HasDay(r, d) == "day" \in DOMAIN r /\ r["day"] = d

\* index of the first record of month_quotes carrying day d, 0 when there is none
RECURSIVE FirstWithDay(_, _, _)
FirstWithDay(month_quotes, d, i) ==
    IF i > Len(month_quotes) THEN 0
    ELSE IF HasDay(month_quotes[i], d) THEN i
    ELSE FirstWithDay(month_quotes, d, i + 1)

WithoutField(r, f) == [k \in DOMAIN r \ {f} |-> r[k]]

Defect(op, m, d, f) == [op |-> op, month |-> m, day |-> d, field |-> f]

\* the authoring defects: a month dropped or left empty, a day removed, a second
\* record for a day put first in its month, a day past the month's end added,
\* a field left out of a record; and a month written in descending day order
Defects ==
    {Defect("DropMonth", "november", 0, ""), Defect("DropMonth", "february", 0, ""),
     Defect("EmptyMonth", "november", 0, ""),
     Defect("RemoveDay", "february", 28, ""), Defect("RemoveDay", "november", 30, ""),
     Defect("DuplicateDay", "february", 28, ""), Defect("DuplicateDay", "november", 1, ""),
     Defect("AddDay", "february", 29, ""),
     Defect("DropField", "february", 28, "quote"),
     Defect("ReverseMonth", "december", 0, "")}
    \cup {Defect("DropField", "february", 1, required_fields[i]) :
            i \in 1..Len(required_fields)}
    \cup {Defect("DropField", "february", 2, "day")}

ApplyDefect(ds, x) ==
    IF x.month \notin DOMAIN ds THEN ds
    ELSE LET mq == ds[x.month]
             at == FirstWithDay(mq, x.day, 1)
         IN CASE x.op = "DropMonth" -> [k \in DOMAIN ds \ {x.month} |-> ds[k]]
              [] x.op = "EmptyMonth" -> [ds EXCEPT ![x.month] = <<>>]
              [] x.op = "RemoveDay" ->
                    [ds EXCEPT ![x.month] = SelectSeq(mq, LAMBDA r : ~HasDay(r, x.day))]
              [] x.op = "DuplicateDay" ->
                    [ds EXCEPT ![x.month] = <<QuoteRecord(x.month, x.day, 1)>> \o mq]
              [] x.op = "AddDay" ->
                    [ds EXCEPT ![x.month] = Append(mq, QuoteRecord(x.month, x.day, 0))]
              [] x.op = "ReverseMonth" ->
                    [ds EXCEPT ![x.month] = [i \in 1..Len(mq) |-> mq[Len(mq) + 1 - i]]]
              [] x.op = "DropField" ->
                    IF at = 0 THEN ds
                    ELSE [ds EXCEPT ![x.month][at] = WithoutField(mq[at], x.field)]

RECURSIVE DatasetsWith(_)
DatasetsWith(n) ==
    IF n = 0 THEN {CompleteDataset}
    ELSE LET prev == DatasetsWith(n - 1)
         IN prev \cup {ApplyDefect(ds, x) : ds \in prev, x \in Defects}

(***************************************************************************)
(* Calendar dates handed to the lookup (datetime values).                  *)
(***************************************************************************)
IsLeap(y) == y % 4 = 0 /\ (y % 100 # 0 \/ y % 400 = 0)
DaysInMonth(y, mo) ==
    IF mo = 2 /\ IsLeap(y) THEN 29 ELSE expected_days[MonthNames[mo]]

DatesOf(y) ==
    UNION {{[year |-> y, month |-> mo, day |-> d] : d \in 1..DaysInMonth(y, mo)} :
             mo \in 1..12}

\* every date of 2025, and February of the leap year 2024
Dates == DatesOf(2025) \cup {dt \in DatesOf(2024) : dt.month = 2}

NoDate == [year |-> 0, month |-> 0, day |-> 0]

(***************************************************************************)
(* QuoteLoader                                                             *)
(***************************************************************************)
NoCache == [loaded |-> FALSE, db |-> <<>>]

NoText == <<>>
LookupResult(s, m, d, f, q, a, t) ==
    [status |-> s, month |-> m, day |-> d, field |-> f,
     quote |-> q, attribution |-> a, theme |-> t]
LookupError(s, m, d, f) == LookupResult(s, m, d, f, NoText, NoText, NoText)

\* the loop of get_quote_for_date over one month's records, from index i
RECURSIVE find_quote(_, _, _, _)
find_quote(month_quotes, month_name, day_num, i) ==
    IF i > Len(month_quotes)
    THEN LookupError("DayNotFound", month_name, day_num, "")
    ELSE LET quote_entry == month_quotes[i]
         IN IF "day" \notin DOMAIN quote_entry
            THEN LookupError("KeyError", month_name, day_num, "day")
            ELSE IF quote_entry["day"] = day_num
            THEN IF "quote" \notin DOMAIN quote_entry
                 THEN LookupError("KeyError", month_name, day_num, "quote")
                 ELSE IF "attribution" \notin DOMAIN quote_entry
                 THEN LookupError("KeyError", month_name, day_num, "attribution")
                 ELSE IF "theme" \notin DOMAIN quote_entry
                 THEN LookupError("KeyError", month_name, day_num, "theme")
                 ELSE LookupResult("ok", month_name, day_num, "",
                                   quote_entry["quote"], quote_entry["attribution"],
                                   quote_entry["theme"])
            ELSE find_quote(month_quotes, month_name, day_num, i + 1)

\* mutant: February 29 is looked up as it is
leap_day_num_unfolded(month_name, day_num) == day_num

\* the leap-day rule of get_quote_for_date
leap_day_num(month_name, day_num) ==
    IF month_name = "february" /\ day_num = 29 THEN 28 ELSE day_num

\* mutant: the scan starts at the second record of the month
get_quote_for_date_from_second(quotes_db, date) ==
    LET month_name == MonthNames[date.month]
        day_num == leap_day_num(month_name, date.day)
    IN IF month_name \notin DOMAIN quotes_db
       THEN LookupError("MonthNotFound", month_name, 0, "")
       ELSE find_quote(quotes_db[month_name], month_name, day_num, 2)

\* mutant: quotes_db.get(month_name, []) in place of the month check
get_quote_for_date_default_month(quotes_db, date) ==
    LET month_name == MonthNames[date.month]
        day_num == leap_day_num(month_name, date.day)
    IN IF month_name \notin DOMAIN quotes_db
       THEN LookupError("DayNotFound", month_name, day_num, "")
       ELSE find_quote(quotes_db[month_name], month_name, day_num, 1)

\* mutant: a month without records is reported as a month that is not there
get_quote_for_date_empty_is_missing(quotes_db, date) ==
    LET month_name == MonthNames[date.month]
        day_num == leap_day_num(month_name, date.day)
    IN IF month_name \notin DOMAIN quotes_db \/ quotes_db[month_name] = <<>>
       THEN LookupError("MonthNotFound", month_name, 0, "")
       ELSE find_quote(quotes_db[month_name], month_name, day_num, 1)

\* get_quote_for_date once the database is loaded
get_quote_for_date(quotes_db, date) ==
    LET month_name == MonthNames[date.month]
        day_num == leap_day_num(month_name, date.day)
    IN IF month_name \notin DOMAIN quotes_db
       THEN LookupError("MonthNotFound", month_name, 0, "")
       ELSE find_quote(quotes_db[month_name], month_name, day_num, 1)

\* The dataset object of the store, given by what get_object and json.loads make of it.
AbsentObject == [kind |-> "absent", value |-> <<>>]
InvalidJsonObject == [kind |-> "invalid_json", value |-> <<>>]
JsonObject(v) == [kind |-> "json", value |-> v]

\* load_quotes_database: fault is a ClientError of the call other than NoSuchKey ("" = none)
load_quotes_database(cache, object, fault) ==
    IF cache.loaded
    THEN [status |-> "ok", db |-> cache.db, cache |-> cache, loaded_now |-> FALSE]
    ELSE IF fault # ""
    THEN [status |-> "ClientError", db |-> <<>>, cache |-> cache, loaded_now |-> FALSE]
    ELSE IF object.kind = "absent"
    THEN [status |-> "DatasetNotFound", db |-> <<>>, cache |-> cache, loaded_now |-> FALSE]
    ELSE IF object.kind = "invalid_json"
    THEN [status |-> "InvalidJSON", db |-> <<>>, cache |-> cache, loaded_now |-> FALSE]
    ELSE [status |-> "ok", db |-> object.value,
          cache |-> [loaded |-> TRUE, db |-> object.value], loaded_now |-> TRUE]

(***************************************************************************)
(* The two integrity checks.                                               *)
(***************************************************************************)
absent_day == -1   \* quote_entry.get('day') of a record without the field

get_day(quote_entry) ==
    IF "day" \in DOMAIN quote_entry THEN quote_entry["day"] ELSE absent_day

\* the loop over one month's records: days_found and the duplicates appended
RECURSIVE scan_days(_, _, _, _, _)
scan_days(month, month_quotes, i, days_found, duplicate_days) ==
    IF i > Len(month_quotes)
    THEN [days_found |-> days_found, duplicate_days |-> duplicate_days]
    ELSE LET day == get_day(month_quotes[i])
         IN scan_days(month, month_quotes, i + 1, days_found \cup {day},
                      IF day \in days_found
                      THEN Append(duplicate_days, <<month, day>>)
                      ELSE duplicate_days)

\* the missing-day loop stopping one day short of the month's end
missing_in_short(month, expected_count, days_found) ==
    SelectSeq([d \in 1..(expected_count - 1) |-> <<month, d>>],
              LAMBDA pair : pair[2] \notin days_found)

\* [(month, day) for day in range(1, expected_count + 1) if day not in days_found]
missing_in(month, expected_count, days_found) ==
    SelectSeq([d \in 1..expected_count |-> <<month, d>>],
              LAMBDA pair : pair[2] \notin days_found)

\* the required-field loop of validate_quotes_database over one record; the '?' that
\* quote_entry.get("day", "?") gives for a record without a day is the absent day value
entry_missing_fields(month, quote_entry) ==
    SelectSeq([i \in 1..Len(required_fields) |->
                  <<month, get_day(quote_entry), required_fields[i]>>],
              LAMBDA triple : triple[3] \notin DOMAIN quote_entry)

RECURSIVE scan_fields(_, _, _, _)
scan_fields(month, month_quotes, i, missing_fields) ==
    IF i > Len(month_quotes) THEN missing_fields
    ELSE scan_fields(month, month_quotes, i + 1,
                     missing_fields \o entry_missing_fields(month, month_quotes[i]))

\* the loop over expected_days of both checks, from the k-th month
RECURSIVE scan_months(_, _, _)
scan_months(quotes_db, k, acc) ==
    IF k > Len(MonthNames) THEN acc
    ELSE LET month == MonthNames[k]
             expected_count == expected_days[month]
         IN IF month \notin DOMAIN quotes_db
            THEN scan_months(quotes_db, k + 1,
                     [acc EXCEPT !.missing_days =
                         @ \o [d \in 1..expected_count |-> <<month, d>>]])
            ELSE LET month_quotes == quotes_db[month]
                     scan == scan_days(month, month_quotes, 1, {}, acc.duplicate_days)
                 IN scan_months(quotes_db, k + 1,
                     [total_quotes |-> acc.total_quotes + Len(month_quotes),
                      missing_days |-> acc.missing_days
                          \o missing_in(month, expected_count, scan.days_found),
                      duplicate_days |-> scan.duplicate_days,
                      missing_fields |-> scan_fields(month, month_quotes, 1,
                                                     acc.missing_fields)])

scan_start ==
    [total_quotes |-> 0, missing_days |-> <<>>, duplicate_days |-> <<>>,
     missing_fields |-> <<>>]

\* QuoteLoader.validate_database_completeness: no field check, no missing_fields key
loader_is_complete(scan) ==
    Len(scan.missing_days) = 0 /\ Len(scan.duplicate_days) = 0
    /\ scan.total_quotes = 365

validate_database_completeness(quotes_db) ==
    LET scan == scan_months(quotes_db, 1, scan_start)
    IN [complete |-> loader_is_complete(scan),
        total_quotes |-> scan.total_quotes,
        missing_days |-> scan.missing_days,
        duplicate_days |-> scan.duplicate_days,
        missing_fields |-> <<>>]

\* validate_quotes_database of validate_quotes.py
script_is_complete(scan) ==
    Len(scan.missing_days) = 0 /\ Len(scan.duplicate_days) = 0
    /\ Len(scan.missing_fields) = 0 /\ scan.total_quotes = 365

validate_quotes_database(quotes_db) ==
    LET scan == scan_months(quotes_db, 1, scan_start)
    IN [complete |-> script_is_complete(scan),
        total_quotes |-> scan.total_quotes,
        missing_days |-> scan.missing_days,
        duplicate_days |-> scan.duplicate_days,
        missing_fields |-> scan.missing_fields]

(***************************************************************************)
(* Resolver-side operations.  outcome records the last call.              *)
(***************************************************************************)
NoOutcome ==
    [op |-> "none", via |-> "", loader |-> 0, date |-> NoDate,
     result |-> LookupError("none", "", 0, "")]

Faults == {"", "AccessDenied"}

\* QuoteLoader(bucket_name)
NewQuoteLoader ==
    /\ Len(loaders) < MaxLoaders
    /\ loaders' = Append(loaders, NoCache)
    /\ UNCHANGED <<s3_quotes, db_loads, outcome>>
    /\ UNCHANGED archiveVars
    /\ UNCHANGED serviceVars
    /\ UNCHANGED handlerVars

\* loader.get_quote_for_date(date) on a loader the caller holds
LoaderGetQuoteForDate(l, date, fault) ==
    LET load == load_quotes_database(loaders[l], s3_quotes, fault)
    IN /\ load.loaded_now => db_loads < MaxDbLoads
       /\ loaders' = [loaders EXCEPT ![l] = load.cache]
       /\ db_loads' = IF load.loaded_now THEN db_loads + 1 ELSE db_loads
       /\ outcome' =
            [op |-> "get_quote_for_date", via |-> "loader", loader |-> l, date |-> date,
             result |-> IF load.status = "ok"
                        THEN get_quote_for_date(load.db, date)
                        ELSE LookupError(load.status, "", 0, "")]
       /\ UNCHANGED s3_quotes
       /\ UNCHANGED archiveVars
       /\ UNCHANGED serviceVars
       /\ UNCHANGED handlerVars

\* the module-level get_quote_for_date(bucket_name, date): a loader of its own
ConvenienceGetQuoteForDate(date, fault) ==
    LET load == load_quotes_database(NoCache, s3_quotes, fault)
    IN /\ load.loaded_now => db_loads < MaxDbLoads
       /\ db_loads' = IF load.loaded_now THEN db_loads + 1 ELSE db_loads
       /\ outcome' =
            [op |-> "get_quote_for_date", via |-> "function", loader |-> 0, date |-> date,
             result |-> IF load.status = "ok"
                        THEN get_quote_for_date(load.db, date)
                        ELSE LookupError(load.status, "", 0, "")]
       /\ UNCHANGED <<s3_quotes, loaders>>
       /\ UNCHANGED archiveVars
       /\ UNCHANGED serviceVars
       /\ UNCHANGED handlerVars

ValidationResult(v) ==
    [status |-> "ok", complete |-> v.complete, total_quotes |-> v.total_quotes,
     missing_days |-> v.missing_days, duplicate_days |-> v.duplicate_days,
     missing_fields |-> v.missing_fields]

\* loader.validate_database_completeness()
LoaderValidate(l, fault) ==
    LET load == load_quotes_database(loaders[l], s3_quotes, fault)
    IN /\ load.loaded_now => db_loads < MaxDbLoads
       /\ loaders' = [loaders EXCEPT ![l] = load.cache]
       /\ db_loads' = IF load.loaded_now THEN db_loads + 1 ELSE db_loads
       /\ outcome' =
            [op |-> "validate_database_completeness", via |-> "loader", loader |-> l,
             date |-> NoDate,
             result |-> IF load.status = "ok"
                        THEN ValidationResult(validate_database_completeness(load.db))
                        ELSE LookupError(load.status, "", 0, "")]
       /\ UNCHANGED s3_quotes
       /\ UNCHANGED archiveVars
       /\ UNCHANGED serviceVars
       /\ UNCHANGED handlerVars

\* validate_quotes_database(file_path) on the dataset document
ScriptValidate ==
    /\ outcome' =
         [op |-> "validate_quotes_database", via |-> "script", loader |-> 0,
          date |-> NoDate,
          result |-> IF s3_quotes.kind = "json"
                     THEN ValidationResult(validate_quotes_database(s3_quotes.value))
                     ELSE IF s3_quotes.kind = "invalid_json"
                     THEN LookupError("InvalidJSON", "", 0, "")
                     ELSE LookupError("FileNotFound", "", 0, "")]
    /\ UNCHANGED <<s3_quotes, loaders, db_loads>>
    /\ UNCHANGED archiveVars
    /\ UNCHANGED serviceVars
    /\ UNCHANGED handlerVars

\* the dataset document is replaced in the store (an upload from outside the process)
PutDataset(object) ==
    /\ object # s3_quotes
    /\ s3_quotes' = object
    /\ UNCHANGED <<loaders, db_loads, outcome>>
    /\ UNCHANGED archiveVars
    /\ UNCHANGED serviceVars
    /\ UNCHANGED handlerVars

(***************************************************************************)
(* Python values and JSON text.  A Python value carries its type; a dict  *)
(* is its items in insertion order, a list its elements.  A JSON text is  *)
(* its syntax tree, an object being its members in written order.         *)
(***************************************************************************)
PyStr(x) == [t |-> "str", s |-> x, xs |-> <<>>]
PyList(xs) == [t |-> "list", s |-> "", xs |-> xs]
PyDict(items) == [t |-> "dict", s |-> "", xs |-> items]
PyNone == [t |-> "NoneType", s |-> "", xs |-> <<>>]
Unbound == [t |-> "unbound", s |-> "", xs |-> <<>>]
Item(k, val) == [k |-> k, val |-> val]

JString(x) == [t |-> "string", s |-> x, xs |-> <<>>]
JArray(xs) == [t |-> "array", s |-> "", xs |-> xs]
JObject(members) == [t |-> "object", s |-> "", xs |-> members]
JNull == [t |-> "null", s |-> "", xs |-> <<>>]
Member(k, val) == [k |-> k, val |-> val]

\* key in d, d[key], d[key] = val for a dict d
HasKey(d, key) == \E i \in 1..Len(d.xs) : d.xs[i].k = key
KeyIndex(d, key) == CHOOSE i \in 1..Len(d.xs) : d.xs[i].k = key
GetKey(d, key) == d.xs[KeyIndex(d, key)].val
SetKey(d, key, val) ==
    IF HasKey(d, key)
    THEN PyDict([d.xs EXCEPT ![KeyIndex(d, key)] = Item(key, val)])
    ELSE PyDict(Append(d.xs, Item(key, val)))

\* json.dumps(value)
RECURSIVE json_dumps(_)
json_dumps(py) ==
    CASE py.t = "dict" ->
            JObject([i \in 1..Len(py.xs) |->
                        Member(py.xs[i].k, json_dumps(py.xs[i].val))])
      [] py.t = "list" -> JArray([i \in 1..Len(py.xs) |-> json_dumps(py.xs[i])])
      [] py.t = "str" -> JString(py.s)
      [] OTHER -> JNull

\* json.loads(text); loads_members is the dict built from an object's members,
\* from the i-th on, a later member replacing an earlier one of the same key
RECURSIVE loads_members(_, _, _)
RECURSIVE json_loads(_)
json_loads(j) ==
    CASE j.t = "object" -> loads_members(j.xs, 1, PyDict(<<>>))
      [] j.t = "array" -> PyList([i \in 1..Len(j.xs) |-> json_loads(j.xs[i])])
      [] j.t = "string" -> PyStr(j.s)
      [] OTHER -> PyNone
loads_members(members, i, d) ==
    IF i > Len(members) THEN d
    ELSE loads_members(members, i + 1,
                       SetKey(d, members[i].k, json_loads(members[i].val)))

\* len(history.get('quotes', [])) as load_history, save_history and get_quote_count
\* evaluate it: the exception it raises, or the length
len_quotes(h) ==
    IF h.t # "dict" THEN [status |-> "AttributeError", n |-> 0]
    ELSE IF ~HasKey(h, "quotes") THEN [status |-> "ok", n |-> 0]
    ELSE LET quotes == GetKey(h, "quotes")
         IN IF quotes.t \in {"list", "dict"}
            THEN [status |-> "ok", n |-> Len(quotes.xs)]
            ELSE IF quotes.t = "str"
            THEN [status |-> "ok", n |-> Len(quotes.s)]
            ELSE [status |-> "TypeError", n |-> 0]

(***************************************************************************)
(* QuoteTracker                                                            *)
(***************************************************************************)
EmptyHistory == PyDict(<<Item("quotes", PyList(<<>>))>>)

\* a load that writes the empty archive when the key does not exist
load_history_creating(object, fault) ==
    IF fault # ""
    THEN [status |-> "ClientError", history |-> Unbound, object |-> object,
          gets |-> 1, puts |-> 0]
    ELSE IF object.kind = "absent"
    THEN [status |-> "ok", history |-> EmptyHistory,
          object |-> JsonObject(json_dumps(EmptyHistory)), gets |-> 1, puts |-> 1]
    ELSE IF object.kind = "invalid_json"
    THEN [status |-> "JSONDecodeError", history |-> Unbound, object |-> object,
          gets |-> 1, puts |-> 0]
    ELSE LET h == json_loads(object.value)
             logged == len_quotes(h)
         IN [status |-> logged.status,
             history |-> IF logged.status = "ok" THEN h ELSE Unbound,
             object |-> object, gets |-> 1, puts |-> 0]

\* load_history(): one get_object of the history key
load_history(object, fault) ==
    IF fault # ""
    THEN [status |-> "ClientError", history |-> Unbound, object |-> object,
          gets |-> 1, puts |-> 0]
    ELSE IF object.kind = "absent"
    THEN [status |-> "ok", history |-> EmptyHistory, object |-> object,
          gets |-> 1, puts |-> 0]
    ELSE IF object.kind = "invalid_json"
    THEN [status |-> "JSONDecodeError", history |-> Unbound, object |-> object,
          gets |-> 1, puts |-> 0]
    ELSE LET h == json_loads(object.value)
             logged == len_quotes(h)
         IN [status |-> logged.status,
             history |-> IF logged.status = "ok" THEN h ELSE Unbound,
             object |-> object, gets |-> 1, puts |-> 0]

\* a save that first puts back the stored entries the history does not have
save_history_merging(h, object, fault) ==
    LET stored == IF object.kind = "json" THEN json_loads(object.value)
                  ELSE PyDict(<<>>)
        theirs == IF stored.t = "dict" /\ HasKey(stored, "quotes")
                     /\ GetKey(stored, "quotes").t = "list"
                  THEN GetKey(stored, "quotes").xs ELSE <<>>
        mine == IF HasKey(h, "quotes") /\ GetKey(h, "quotes").t = "list"
                THEN GetKey(h, "quotes").xs ELSE <<>>
        missing == SelectSeq(theirs,
                             LAMBDA e : \A k \in 1..Len(mine) : mine[k] # e)
    IN IF fault # ""
       THEN [status |-> "ClientError", object |-> object, gets |-> 0, puts |-> 1]
       ELSE [status |-> len_quotes(h).status,
             object |-> JsonObject(json_dumps(
                            SetKey(h, "quotes", PyList(missing \o mine)))),
             gets |-> 0, puts |-> 1]

\* a save that leaves an empty document behind when the store reports an error
save_history_truncating(h, object, fault) ==
    IF fault # ""
    THEN [status |-> "ClientError", object |-> JsonObject(JObject(<<>>)),
          gets |-> 0, puts |-> 1]
    ELSE [status |-> len_quotes(h).status, object |-> JsonObject(json_dumps(h)),
          gets |-> 0, puts |-> 1]

\* save_history(history): one put_object of the whole document
save_history(h, object, fault) ==
    IF fault # ""
    THEN [status |-> "ClientError", object |-> object, gets |-> 0, puts |-> 1]
    ELSE [status |-> len_quotes(h).status, object |-> JsonObject(json_dumps(h)),
          gets |-> 0, puts |-> 1]

\* an entry storing the theme under reflection and the reflection under theme
NewEntry_swapped(date, quote, attribution, reflection, theme) ==
    PyDict(<<Item("date", PyStr(date)), Item("quote", PyStr(quote)),
             Item("attribution", PyStr(attribution)), Item("theme", PyStr(reflection)),
             Item("reflection", PyStr(theme))>>)

NewEntry(date, quote, attribution, reflection, theme) ==
    PyDict(<<Item("date", PyStr(date)), Item("quote", PyStr(quote)),
             Item("attribution", PyStr(attribution)), Item("theme", PyStr(theme)),
             Item("reflection", PyStr(reflection))>>)

\* an add_quote that leaves the history alone when it has an entry of that date
add_quote_once_a_day(h, date, quote, attribution, reflection, theme) ==
    LET with_key == IF ~HasKey(h, "quotes") THEN SetKey(h, "quotes", PyList(<<>>))
                    ELSE h
        quotes == GetKey(with_key, "quotes")
    IN IF quotes.t # "list"
       THEN [status |-> "AttributeError", history |-> with_key]
       ELSE IF \E k \in 1..Len(quotes.xs) :
                   /\ quotes.xs[k].t = "dict" /\ HasKey(quotes.xs[k], "date")
                   /\ GetKey(quotes.xs[k], "date") = PyStr(date)
       THEN [status |-> "ok", history |-> with_key]
       ELSE [status |-> "ok",
             history |-> SetKey(with_key, "quotes",
                 PyList(Append(quotes.xs,
                               NewEntry(date, quote, attribution, reflection, theme))))]

\* an add_quote that puts the new entry first
add_quote_first(h, date, quote, attribution, reflection, theme) ==
    LET with_key == IF ~HasKey(h, "quotes") THEN SetKey(h, "quotes", PyList(<<>>))
                    ELSE h
        quotes == GetKey(with_key, "quotes")
    IN IF quotes.t # "list"
       THEN [status |-> "AttributeError", history |-> with_key]
       ELSE [status |-> "ok",
             history |-> SetKey(with_key, "quotes",
                 PyList(<<NewEntry(date, quote, attribution, reflection, theme)>>
                        \o quotes.xs))]

\* add_quote(history, date, quote, attribution, reflection, theme), h a dict
add_quote(h, date, quote, attribution, reflection, theme) ==
    LET with_key == IF ~HasKey(h, "quotes") THEN SetKey(h, "quotes", PyList(<<>>))
                    ELSE h
        quotes == GetKey(with_key, "quotes")
    IN IF quotes.t # "list"
       THEN [status |-> "AttributeError", history |-> with_key]
       ELSE [status |-> "ok",
             history |-> SetKey(with_key, "quotes",
                 PyList(Append(quotes.xs,
                               NewEntry(date, quote, attribution, reflection, theme))))]

\* get_quote_count(history)
get_quote_count(h) == len_quotes(h)

(***************************************************************************)
(* datetime.  A datetime is its calendar date, the seconds since midnight  *)
(* and whether it carries a UTC offset (aware) or not (naive).             *)
(***************************************************************************)
FirstYear == 2024     \* the calendar the model's clock and texts live in
LastYear == 2026

DateTime(y, mo, d, secs, aware) ==
    [year |-> y, month |-> mo, day |-> d, secs |-> secs, aware |-> aware]

DaysInYear(y) == IF IsLeap(y) THEN 366 ELSE 365

RECURSIVE DaysBeforeYear(_)
DaysBeforeYear(y) ==
    IF y <= FirstYear THEN 0 ELSE DaysBeforeYear(y - 1) + DaysInYear(y - 1)

RECURSIVE DaysBeforeMonth(_, _)
DaysBeforeMonth(y, mo) ==
    IF mo <= 1 THEN 0 ELSE DaysBeforeMonth(y, mo - 1) + DaysInMonth(y, mo - 1)

\* date.toordinal(), counted from January 1 of FirstYear = 1
toordinal(dt) == DaysBeforeYear(dt.year) + DaysBeforeMonth(dt.year, dt.month) + dt.day

CalendarDays == DaysBeforeYear(LastYear + 1)

RECURSIVE month_of_yearday(_, _, _)
month_of_yearday(y, mo, n) ==
    IF n <= DaysInMonth(y, mo) THEN <<mo, n>>
    ELSE month_of_yearday(y, mo + 1, n - DaysInMonth(y, mo))

RECURSIVE year_of_ordinal(_, _)
year_of_ordinal(y, n) ==
    IF n <= DaysInYear(y) THEN <<y, n>> ELSE year_of_ordinal(y + 1, n - DaysInYear(y))

\* date.fromordinal(n) with the time of day and offset given
fromordinal(n, secs, aware) ==
    LET yn == year_of_ordinal(FirstYear, n)
        md == month_of_yearday(yn[1], 1, yn[2])
    IN DateTime(yn[1], md[1], md[2], secs, aware)

\* dt - timedelta(days=days)
minus_days(dt, days) == fromordinal(toordinal(dt) - days, dt.secs, dt.aware)

\* a < b and a >= b of two datetimes; comparing a naive with an aware one raises
dt_lt(a, b) ==
    IF a.aware # b.aware THEN [status |-> "TypeError", value |-> FALSE]
    ELSE [status |-> "ok",
          value |-> \/ toordinal(a) < toordinal(b)
                    \/ toordinal(a) = toordinal(b) /\ a.secs < b.secs]

\* a > b in place of a >= b
dt_gt(a, b) ==
    LET lt == dt_lt(b, a) IN [status |-> lt.status, value |-> lt.value]

dt_ge(a, b) ==
    LET lt == dt_lt(a, b) IN [status |-> lt.status, value |-> ~lt.value]

\* zero-padded decimal of two digits
Pad2(n) == IF n < 10 THEN "0" \o ToString(n) ELSE ToString(n)

\* dt.strftime('%Y-%m-%d')
strftime_ymd(dt) == ToString(dt.year) \o "-" \o Pad2(dt.month) \o "-" \o Pad2(dt.day)

\* the times of day of the model: midnight and 08:30:15
TimesOfDay == {0, 30615}

strftime_hms(secs) ==
    Pad2(secs \div 3600) \o ":" \o Pad2((secs % 3600) \div 60) \o ":" \o Pad2(secs % 60)

\* dt.isoformat()
isoformat(dt) ==
    strftime_ymd(dt) \o "T" \o strftime_hms(dt.secs)
        \o (IF dt.aware THEN "+00:00" ELSE "")

\* the texts datetime.fromisoformat accepts: the date alone (YYYY-MM-DD, midnight,
\* naive) and the full form dt.isoformat() writes, with or without a UTC offset
DateTexts == [n \in 1..CalendarDays |-> strftime_ymd(fromordinal(n, 0, FALSE))]

DateOrdinals ==
    [text \in {DateTexts[n] : n \in 1..CalendarDays} |->
        CHOOSE n \in 1..CalendarDays : DateTexts[n] = text]

FullForms ==
    {fromordinal(n, secs, aware) :
        n \in 1..CalendarDays, secs \in TimesOfDay, aware \in BOOLEAN}

FullTexts == {isoformat(dt) : dt \in FullForms}

fromisoformat(text) ==
    IF text \in DOMAIN DateOrdinals
    THEN [status |-> "ok", value |-> fromordinal(DateOrdinals[text], 0, FALSE)]
    ELSE IF text \in FullTexts
    THEN [status |-> "ok", value |-> CHOOSE dt \in FullForms : isoformat(dt) = text]
    ELSE [status |-> "ValueError", value |-> DateTime(0, 0, 0, 0, FALSE)]

(***************************************************************************)
(* The scans of the history: get_current_month_quotes, cleanup_old_quotes. *)
(***************************************************************************)
NoDateTime == DateTime(0, 0, 0, 0, FALSE)

\* for quote_entry in history.get('quotes', []): the elements of a list; a str or
\* dict that is not empty yields str elements, on which quote_entry['date'] raises
\* TypeError as iterating None does
iter_quotes(h) ==
    IF ~HasKey(h, "quotes") THEN [status |-> "ok", elements |-> <<>>]
    ELSE LET quotes == GetKey(h, "quotes")
         IN IF quotes.t = "list" THEN [status |-> "ok", elements |-> quotes.xs]
            ELSE IF quotes.t = "dict" /\ Len(quotes.xs) = 0
            THEN [status |-> "ok", elements |-> <<>>]
            ELSE IF quotes.t = "str" /\ Len(quotes.s) = 0
            THEN [status |-> "ok", elements |-> <<>>]
            ELSE [status |-> "TypeError", elements |-> <<>>]

\* datetime.fromisoformat(quote_entry['date']): the datetime, or the exception
entry_date(quote_entry) ==
    IF quote_entry.t # "dict" THEN [status |-> "TypeError", value |-> NoDateTime]
    ELSE IF ~HasKey(quote_entry, "date")
    THEN [status |-> "KeyError", value |-> NoDateTime]
    ELSE LET date == GetKey(quote_entry, "date")
         IN IF date.t # "str" THEN [status |-> "TypeError", value |-> NoDateTime]
            ELSE fromisoformat(date.s)

\* except (KeyError, ValueError): continue
Skipped == {"KeyError", "ValueError"}

\* the loop of get_current_month_quotes from the i-th entry
RECURSIVE month_loop(_, _, _, _)
month_loop(quotes, i, current_date, filtered_quotes) ==
    IF i > Len(quotes) THEN [status |-> "ok", filtered_quotes |-> filtered_quotes]
    ELSE LET parsed == entry_date(quotes[i])
             before == dt_lt(parsed.value, current_date)
         IN IF parsed.status \in Skipped
            THEN month_loop(quotes, i + 1, current_date, filtered_quotes)
            ELSE IF parsed.status # "ok"
            THEN [status |-> parsed.status, filtered_quotes |-> <<>>]
            ELSE IF parsed.value.month = current_date.month
                    /\ parsed.value.year = current_date.year
            THEN IF before.status # "ok"
                 THEN [status |-> before.status, filtered_quotes |-> <<>>]
                 ELSE month_loop(quotes, i + 1, current_date,
                                 IF before.value
                                 THEN Append(filtered_quotes, quotes[i])
                                 ELSE filtered_quotes)
            ELSE month_loop(quotes, i + 1, current_date, filtered_quotes)

\* get_current_month_quotes(history, current_date), h a dict
get_current_month_quotes(h, current_date) ==
    LET it == iter_quotes(h)
    IN IF it.status # "ok" THEN [status |-> it.status, filtered_quotes |-> <<>>]
       ELSE month_loop(it.elements, 1, current_date, <<>>)

\* the loop of cleanup_old_quotes from the i-th entry
RECURSIVE cleanup_loop(_, _, _, _)
cleanup_loop(quotes, i, cutoff_date, filtered_quotes) ==
    IF i > Len(quotes) THEN [status |-> "ok", filtered_quotes |-> filtered_quotes]
    ELSE LET parsed == entry_date(quotes[i])
             kept == dt_ge(parsed.value, cutoff_date)
         IN IF parsed.status \in Skipped
            THEN cleanup_loop(quotes, i + 1, cutoff_date, filtered_quotes)
            ELSE IF parsed.status # "ok"
            THEN [status |-> parsed.status, filtered_quotes |-> <<>>]
            ELSE IF kept.status # "ok"
            THEN [status |-> kept.status, filtered_quotes |-> <<>>]
            ELSE cleanup_loop(quotes, i + 1, cutoff_date,
                              IF kept.value THEN Append(filtered_quotes, quotes[i])
                              ELSE filtered_quotes)

\* a cleanup whose cutoff is keep_days hours, not days, before the clock
cleanup_old_quotes_hours(h, keep_days, clock) ==
    LET cutoff_date == minus_days(clock, keep_days \div 24)
        original_count == len_quotes(h)
        it == iter_quotes(h)
        loop == cleanup_loop(it.elements, 1, cutoff_date, <<>>)
    IN IF original_count.status # "ok"
       THEN [status |-> original_count.status, history |-> h]
       ELSE IF it.status # "ok" THEN [status |-> it.status, history |-> h]
       ELSE IF loop.status # "ok" THEN [status |-> loop.status, history |-> h]
       ELSE [status |-> "ok",
             history |-> SetKey(h, "quotes", PyList(loop.filtered_quotes))]

\* cleanup_old_quotes(history, keep_days) at the moment clock: the dict with its
\* 'quotes' replaced, or the exception and the dict as it was
cleanup_old_quotes(h, keep_days, clock) ==
    LET cutoff_date == minus_days(clock, keep_days)
        original_count == len_quotes(h)
        it == iter_quotes(h)
        loop == cleanup_loop(it.elements, 1, cutoff_date, <<>>)
    IN IF original_count.status # "ok"
       THEN [status |-> original_count.status, history |-> h]
       ELSE IF it.status # "ok" THEN [status |-> it.status, history |-> h]
       ELSE IF loop.status # "ok" THEN [status |-> loop.status, history |-> h]
       ELSE [status |-> "ok",
             history |-> SetKey(h, "quotes", PyList(loop.filtered_quotes))]

(***************************************************************************)
(* Tracker-side operations of one caller.  tracker_outcome records the    *)
(* last call, s3_calls the store calls it made.                           *)
(***************************************************************************)
TrackerOutcome(op, status, fault, n) ==
    [op |-> op, status |-> status, fault |-> fault, n |-> n]

NotPersisted == [valid |-> FALSE, origin |-> AbsentObject, appended |-> <<>>]

\* arguments add_quote is called with
EntryInputs ==
    {[date |-> "2025-10-22", quote |-> "q1", attribution |-> "a1",
      reflection |-> "r1", theme |-> "t1"],
     [date |-> "2025-10-22", quote |-> "q2", attribution |-> "a2",
      reflection |-> "r2", theme |-> "t1"],
     [date |-> "2025-10-23", quote |-> "q1", attribution |-> "a1",
      reflection |-> "r3", theme |-> "t2"]}

EntryOf(x) == NewEntry(x.date, x.quote, x.attribution, x.reflection, x.theme)

\* history documents found in the store when the process starts
HistoryObjects ==
    {AbsentObject,
     InvalidJsonObject,
     JsonObject(JObject(<<>>)),
     JsonObject(JObject(<<Member("quotes", JArray(<<>>))>>)),
     JsonObject(JArray(<<>>)),
     JsonObject(JObject(<<Member("quotes", JNull)>>)),
     JsonObject(JObject(<<Member("quotes", JString("text"))>>)),
     JsonObject(json_dumps(PyDict(<<Item("quotes",
         PyList(<<NewEntry("2025-10-21", "q0", "a0", "r0", "t1")>>))>>)))}

\* history = tracker.load_history()
LoadHistory(fault) ==
    LET r == load_history(s3_history, fault)
    IN /\ history' = r.history
       /\ s3_history' = r.object
       /\ s3_calls' = [gets |-> r.gets, puts |-> r.puts]
       /\ origin' = s3_history
       /\ appended' = <<>>
       /\ tracker_outcome' = TrackerOutcome("load_history", r.status, fault, 0)
       /\ UNCHANGED <<persisted, now, scan_call>>
       /\ UNCHANGED resolverVars
       /\ UNCHANGED serviceVars
       /\ UNCHANGED handlerVars

\* history = tracker.add_quote(history, ...)
AddQuote(x) ==
    /\ history.t = "dict"
    /\ get_quote_count(history).n < MaxEntries
    /\ LET r == add_quote(history, x.date, x.quote, x.attribution, x.reflection,
                          x.theme)
       IN /\ history' = r.history
          /\ appended' = IF r.status = "ok" THEN Append(appended, x) ELSE appended
          /\ tracker_outcome' = TrackerOutcome("add_quote", r.status, "", 0)
    /\ s3_calls' = [gets |-> 0, puts |-> 0]
    /\ UNCHANGED <<s3_history, origin, persisted, now, scan_call>>
    /\ UNCHANGED resolverVars
    /\ UNCHANGED serviceVars
    /\ UNCHANGED handlerVars

\* tracker.save_history(history)
SaveHistory(fault) ==
    /\ history.t = "dict"
    /\ LET r == save_history(history, s3_history, fault)
       IN /\ s3_history' = r.object
          /\ s3_calls' = [gets |-> r.gets, puts |-> r.puts]
          /\ persisted' = IF fault = ""
                          THEN [valid |-> TRUE, origin |-> origin, appended |-> appended]
                          ELSE persisted
          /\ tracker_outcome' = TrackerOutcome("save_history", r.status, fault, 0)
    /\ UNCHANGED <<history, appended, origin, now, scan_call>>
    /\ UNCHANGED resolverVars
    /\ UNCHANGED serviceVars
    /\ UNCHANGED handlerVars

\* tracker.get_quote_count(history)
GetQuoteCount ==
    /\ history.t = "dict"
    /\ LET r == get_quote_count(history)
       IN tracker_outcome' = TrackerOutcome("get_quote_count", r.status, "", r.n)
    /\ s3_calls' = [gets |-> 0, puts |-> 0]
    /\ UNCHANGED <<s3_history, history, appended, origin, persisted, now, scan_call>>
    /\ UNCHANGED resolverVars
    /\ UNCHANGED serviceVars
    /\ UNCHANGED handlerVars

\* the methods class QuoteTracker defines
QuoteTrackerMethods ==
    {"load_history", "save_history", "add_quote", "get_quote_count",
     "get_current_month_quotes", "cleanup_old_quotes"}

\* looking a method up on a QuoteTracker: found, or AttributeError
getattr(name) == IF name \in QuoteTrackerMethods THEN "ok" ELSE "AttributeError"

\* the day the model's clock starts at: October 22, 2025, midnight
Clock0 == DateTime(2025, 10, 22, 0, FALSE)

\* what scan_call holds before any scan
NoScan ==
    [op |-> "none", history |-> Unbound, current_date |-> NoDateTime, keep_days |-> 0,
     clock |-> NoDateTime, status |-> "ok", result |-> Unbound]

\* tracker.get_current_month_quotes(history, current_date)
GetCurrentMonthQuotes(current_date) ==
    /\ history.t = "dict"
    /\ LET r == get_current_month_quotes(history, current_date)
       IN /\ scan_call' =
               [op |-> "get_current_month_quotes", history |-> history,
                current_date |-> current_date, keep_days |-> 0, clock |-> now,
                status |-> r.status,
                result |-> IF r.status = "ok" THEN PyList(r.filtered_quotes)
                           ELSE Unbound]
          /\ tracker_outcome' =
               TrackerOutcome("get_current_month_quotes", r.status, "",
                              Len(r.filtered_quotes))
    /\ s3_calls' = [gets |-> 0, puts |-> 0]
    /\ UNCHANGED <<s3_history, history, appended, origin, persisted, now>>
    /\ UNCHANGED resolverVars
    /\ UNCHANGED serviceVars
    /\ UNCHANGED handlerVars

\* tracker.attributions_used_within(history, days): the class has no such method
\* and none that returns attributions
AttributionsUsedWithin(days) ==
    /\ history.t = "dict"
    /\ scan_call' =
         [op |-> "attributions_used_within", history |-> history,
          current_date |-> NoDateTime, keep_days |-> days, clock |-> now,
          status |-> getattr("attributions_used_within"), result |-> Unbound]
    /\ tracker_outcome' =
         TrackerOutcome("attributions_used_within",
                        getattr("attributions_used_within"), "", 0)
    /\ s3_calls' = [gets |-> 0, puts |-> 0]
    /\ UNCHANGED <<s3_history, history, appended, origin, persisted, now>>
    /\ UNCHANGED resolverVars
    /\ UNCHANGED serviceVars
    /\ UNCHANGED handlerVars

\* history = tracker.cleanup_old_quotes(history, keep_days)
CleanupOldQuotes(keep_days) ==
    /\ history.t = "dict"
    /\ LET r == cleanup_old_quotes(history, keep_days, now)
       IN /\ history' = r.history
          /\ scan_call' =
               [op |-> "cleanup_old_quotes", history |-> history,
                current_date |-> NoDateTime, keep_days |-> keep_days, clock |-> now,
                status |-> r.status,
                result |-> IF r.status = "ok" THEN r.history ELSE Unbound]
          /\ tracker_outcome' =
               TrackerOutcome("cleanup_old_quotes", r.status, "",
                              get_quote_count(r.history).n)
    /\ s3_calls' = [gets |-> 0, puts |-> 0]
    /\ UNCHANGED <<s3_history, appended, origin, persisted, now>>
    /\ UNCHANGED resolverVars
    /\ UNCHANGED serviceVars
    /\ UNCHANGED handlerVars

(***************************************************************************)
(* lambda_handler: the invocations of the daily send.  Of an invocation    *)
(* the model keeps the date it read, the reflection it was given and its   *)
(* steps on the history (handler.py, step 6); the quote of the day and the *)
(* theme are those of the date.                                            *)
(***************************************************************************)
\* an invocation: pc is the step it is at, status the statusCode it returned,
\* store_before the stored history when it began, cleanup_clock the moment of
\* its cleanup; history is unbound once the handler has returned
Run(pc, current_date, reflection, h, store_before, cleanup_clock, status) ==
    [pc |-> pc, current_date |-> current_date, reflection |-> reflection,
     history |-> h, store_before |-> store_before, cleanup_clock |-> cleanup_clock,
     status |-> status]

IdleRun == Run("idle", NoDateTime, "", Unbound, AbsentObject, NoDateTime, 0)

\* what generate_reflection_only may return
Reflections == {"reflection a", "reflection b"}

\* the quote and attribution the loader gives for a date, and the month's theme
quote_of(current_date) == "quote of " \o MonthNames[current_date.month]
                              \o " " \o ToString(leap_day_num(MonthNames[current_date.month], current_date.day))
attribution_of(current_date) == "attribution of " \o MonthNames[current_date.month]
                                    \o " " \o ToString(leap_day_num(MonthNames[current_date.month], current_date.day))
theme_name_of(current_date) == "theme of " \o MonthNames[current_date.month]

Finished(i) == runs[i].pc \in {"idle", "done", "failed"}

\* the except clause of lambda_handler: statusCode 500
RunFailed(r) ==
    [r EXCEPT !.pc = "failed", !.status = 500, !.history = Unbound,
              !.cleanup_clock = NoDateTime]

\* what an invocation met when it began: whether the required environment
\* variables were set, how the quote lookup ended, and the recipients.json found
Met(env, lookup, config) == [env |-> env, lookup |-> lookup, config |-> config]

\* what an invocation knows of its emails: what it met, the recipients it loaded,
\* the sends it has attempted in order, its two counters, and the error of its
\* 500 response
Sending(met, recipients, attempts, success_count, failure_count, error) ==
    [met |-> met, recipients |-> recipients, attempts |-> attempts,
     success_count |-> success_count, failure_count |-> failure_count,
     error |-> error]

\* the object recipients.json of the bucket: unreadable, no JSON, or a config
RecipientConfig(kind, recipients) == [kind |-> kind, recipients |-> recipients]

\* r.strip() of an address: the blank ones strip to the empty string
strip(r) == IF r \in {"", " "} THEN "" ELSE r

\* load_recipients_from_s3(bucket_name)
load_recipients_from_s3(config) ==
    IF config.kind = "error"
    THEN [status |-> "ClientError", recipients |-> <<>>]
    ELSE IF config.kind = "invalid_json"
    THEN [status |-> "JSONDecodeError", recipients |-> <<>>]
    ELSE IF config.kind = "not_a_list"
    THEN [status |-> "ValueError", recipients |-> <<>>]
    ELSE [status |-> "ok",
          recipients |-> SelectSeq(config.recipients, LAMBDA r : strip(r) # "")]

NoSending == Sending(Met(FALSE, "", RecipientConfig("error", <<>>)), <<>>, <<>>, 0, 0, "")

\* generate_reflection_only returned None
NoReflection == "None"

\* a start that goes on to the history step without a reflection
start_error_unchecked_reflection(env, lookup, config, reflection) ==
    LET loaded == load_recipients_from_s3(config)
    IN IF ~env THEN "Missing required environment variables"
       ELSE IF lookup # "ok" THEN lookup
       ELSE IF loaded.status # "ok" THEN loaded.status
       ELSE IF loaded.recipients = <<>> THEN "No recipients configured"
       ELSE ""

\* lambda_handler up to step 5: the environment, current_date = datetime.now(),
\* the quote of the day, the recipients and the reflection, in that order; the
\* first of them that fails ends the invocation with statusCode 500
start_error(env, lookup, config, reflection) ==
    LET loaded == load_recipients_from_s3(config)
    IN IF ~env THEN "Missing required environment variables"
       ELSE IF lookup # "ok" THEN lookup
       ELSE IF loaded.status # "ok" THEN loaded.status
       ELSE IF loaded.recipients = <<>> THEN "No recipients configured"
       ELSE IF reflection = NoReflection
       THEN "Failed to generate reflection from Anthropic API"
       ELSE ""

RunStart(i, env, lookup, config, reflection) ==
    /\ Finished(i)
    /\ started < MaxRuns
    /\ started' = started + 1
    /\ LET error == start_error(env, lookup, config, reflection)
           r == Run("started", now, reflection, Unbound, s3_history, NoDateTime, 0)
       IN IF error = ""
          THEN /\ runs' = [runs EXCEPT ![i] = r]
               /\ sending' = [sending EXCEPT ![i] =
                     Sending(Met(env, lookup, config),
                             load_recipients_from_s3(config).recipients,
                             <<>>, 0, 0, "")]
          ELSE /\ runs' = [runs EXCEPT ![i] = RunFailed(r)]
               /\ sending' = [sending EXCEPT ![i] =
                     Sending(Met(env, lookup, config), <<>>, <<>>, 0, 0, error)]
    /\ UNCHANGED <<ledger, log>>
    /\ UNCHANGED <<s3_history, history, appended, origin, persisted, s3_calls,
                   tracker_outcome, now, scan_call>>
    /\ UNCHANGED resolverVars
    /\ UNCHANGED serviceVars

\* the invocation's record of its emails once a history step has raised
Raised(i, error) == [sending EXCEPT ![i].error = error]

\* history = tracker.load_history()
RunLoadHistory(i, fault) ==
    /\ runs[i].pc = "started"
    /\ LET r == load_history(s3_history, fault)
       IN /\ runs' = [runs EXCEPT ![i] =
                        IF r.status = "ok"
                        THEN [@ EXCEPT !.pc = "loaded", !.history = r.history]
                        ELSE RunFailed(@)]
          /\ sending' = IF r.status = "ok" THEN sending ELSE Raised(i, r.status)
          /\ s3_history' = r.object
          /\ log' = IF r.status = "ok"
                    THEN Append(log, [run |-> i, op |-> "load", object |-> s3_history])
                    ELSE log
    /\ UNCHANGED <<started, ledger>>
    /\ UNCHANGED <<history, appended, origin, persisted, s3_calls, tracker_outcome,
                   now, scan_call>>
    /\ UNCHANGED resolverVars
    /\ UNCHANGED serviceVars

\* the arguments of the invocation's add_quote call
RunEntry(r) ==
    NewEntry(strftime_ymd(r.current_date), quote_of(r.current_date),
             attribution_of(r.current_date), r.reflection,
             theme_name_of(r.current_date))

\* history = tracker.add_quote(history, current_date_str, quote, attribution,
\*                             reflection, theme_name)
RunAddQuote(i) ==
    /\ runs[i].pc = "loaded"
    /\ LET r == add_quote(runs[i].history, strftime_ymd(runs[i].current_date),
                          quote_of(runs[i].current_date),
                          attribution_of(runs[i].current_date),
                          runs[i].reflection, theme_name_of(runs[i].current_date))
       IN /\ runs' = [runs EXCEPT ![i] =
                        IF r.status = "ok"
                        THEN [@ EXCEPT !.pc = "added", !.history = r.history]
                        ELSE RunFailed(@)]
          /\ sending' = IF r.status = "ok" THEN sending ELSE Raised(i, r.status)
    /\ UNCHANGED <<started, ledger, log>>
    /\ UNCHANGED <<s3_history, history, appended, origin, persisted, s3_calls,
                   tracker_outcome, now, scan_call>>
    /\ UNCHANGED resolverVars
    /\ UNCHANGED serviceVars

\* history = tracker.cleanup_old_quotes(history, keep_days=400)
RunCleanup(i) ==
    /\ runs[i].pc = "added"
    /\ LET r == cleanup_old_quotes(runs[i].history, 400, now)
       IN /\ runs' = [runs EXCEPT ![i] =
                        IF r.status = "ok"
                        THEN [@ EXCEPT !.pc = "cleaned", !.history = r.history,
                                       !.cleanup_clock = now]
                        ELSE RunFailed(@)]
          /\ sending' = IF r.status = "ok" THEN sending ELSE Raised(i, r.status)
    /\ UNCHANGED <<started, ledger, log>>
    /\ UNCHANGED <<s3_history, history, appended, origin, persisted, s3_calls,
                   tracker_outcome, now, scan_call>>
    /\ UNCHANGED resolverVars
    /\ UNCHANGED serviceVars

\* tracker.save_history(history), then the count and the formatting of the email
RunSaveHistory(i, fault) ==
    /\ runs[i].pc = "cleaned"
    /\ LET r == save_history(runs[i].history, s3_history, fault)
       IN /\ runs' = [runs EXCEPT ![i] =
                        IF r.status = "ok"
                        THEN [@ EXCEPT !.pc = "saved"]
                        ELSE RunFailed(@)]
          /\ sending' = IF r.status = "ok" THEN sending ELSE Raised(i, r.status)
          /\ s3_history' = r.object
          /\ log' = IF r.status = "ok"
                    THEN Append(log, [run |-> i, op |-> "save", object |-> r.object])
                    ELSE log
          /\ ledger' = IF r.status = "ok"
                       THEN Append(ledger,
                                [run |-> i, entry |-> RunEntry(runs[i]),
                                 ordinal |-> toordinal(runs[i].current_date)])
                       ELSE ledger
    /\ UNCHANGED started
    /\ UNCHANGED <<history, appended, origin, persisted, s3_calls, tracker_outcome,
                   now, scan_call>>
    /\ UNCHANGED resolverVars
    /\ UNCHANGED serviceVars

\* send_email_via_ses(...): the message is accepted, or ClientError is raised
send_email_via_ses(recipient, fault) ==
    IF fault # "" THEN "ClientError" ELSE "ok"

\* a loop of sends that may begin before the history is saved
RunSendEmail_before_save(i, fault) ==
    /\ runs[i].pc \in {"cleaned", "saved"}
    /\ Len(sending[i].attempts) < Len(sending[i].recipients)
    /\ LET mine == sending[i]
           recipient == mine.recipients[Len(mine.attempts) + 1]
           sent == send_email_via_ses(recipient, fault) = "ok"
           last == Len(mine.attempts) + 1 = Len(mine.recipients)
       IN /\ sending' = [sending EXCEPT ![i] =
                Sending(mine.met, mine.recipients,
                        Append(mine.attempts, [recipient |-> recipient, ok |-> sent]),
                        IF sent THEN mine.success_count + 1 ELSE mine.success_count,
                        IF sent THEN mine.failure_count ELSE mine.failure_count + 1,
                        "")]
          /\ runs' = [runs EXCEPT ![i] =
                        IF last
                        THEN [@ EXCEPT !.pc = "done", !.status = 200,
                                       !.history = Unbound]
                        ELSE @]
    /\ UNCHANGED <<started, ledger, log>>
    /\ UNCHANGED <<s3_history, history, appended, origin, persisted, s3_calls,
                   tracker_outcome, now, scan_call>>
    /\ UNCHANGED resolverVars
    /\ UNCHANGED serviceVars

\* a loop of sends that ends at the first send that fails
RunSendEmail_until_failure(i, fault) ==
    /\ runs[i].pc = "saved"
    /\ LET mine == sending[i]
           recipient == mine.recipients[Len(mine.attempts) + 1]
           sent == send_email_via_ses(recipient, fault) = "ok"
           last == Len(mine.attempts) + 1 = Len(mine.recipients)
       IN /\ sending' = [sending EXCEPT ![i] =
                Sending(mine.met, mine.recipients,
                        Append(mine.attempts, [recipient |-> recipient, ok |-> sent]),
                        IF sent THEN mine.success_count + 1 ELSE mine.success_count,
                        IF sent THEN mine.failure_count ELSE mine.failure_count + 1,
                        "")]
          /\ runs' = [runs EXCEPT ![i] =
                        IF last \/ ~sent
                        THEN [@ EXCEPT !.pc = "done", !.status = 200,
                                       !.history = Unbound]
                        ELSE @]
    /\ UNCHANGED <<started, ledger, log>>
    /\ UNCHANGED <<s3_history, history, appended, origin, persisted, s3_calls,
                   tracker_outcome, now, scan_call>>
    /\ UNCHANGED resolverVars
    /\ UNCHANGED serviceVars

\* one turn of 'for recipient in recipients': the send, the counter, and after
\* the last recipient the 200 response
RunSendEmail(i, fault) ==
    /\ runs[i].pc = "saved"
    /\ LET mine == sending[i]
           recipient == mine.recipients[Len(mine.attempts) + 1]
           sent == send_email_via_ses(recipient, fault) = "ok"
           last == Len(mine.attempts) + 1 = Len(mine.recipients)
       IN /\ sending' = [sending EXCEPT ![i] =
                Sending(mine.met, mine.recipients,
                        Append(mine.attempts, [recipient |-> recipient, ok |-> sent]),
                        IF sent THEN mine.success_count + 1 ELSE mine.success_count,
                        IF sent THEN mine.failure_count ELSE mine.failure_count + 1,
                        "")]
          /\ runs' = [runs EXCEPT ![i] =
                        IF last
                        THEN [@ EXCEPT !.pc = "done", !.status = 200,
                                       !.history = Unbound]
                        ELSE @]
    /\ UNCHANGED <<started, ledger, log>>
    /\ UNCHANGED <<s3_history, history, appended, origin, persisted, s3_calls,
                   tracker_outcome, now, scan_call>>
    /\ UNCHANGED resolverVars
    /\ UNCHANGED serviceVars

\* days go by between invocations: the clock moves on to a later day
Tick(days) ==
    /\ \A i \in DOMAIN runs : Finished(i)
    /\ days > 0
    /\ toordinal(now) + days <= CalendarDays
    /\ now' = fromordinal(toordinal(now) + days, now.secs, now.aware)
    /\ UNCHANGED <<s3_history, history, appended, origin, persisted, s3_calls,
                   tracker_outcome, scan_call>>
    /\ UNCHANGED handlerVars
    /\ UNCHANGED resolverVars
    /\ UNCHANGED serviceVars

(***************************************************************************)
(* themes.py: the theme of each month.                                     *)
(***************************************************************************)
ThemeInfo(name, description) == [name |-> name, description |-> description]

NoTheme == ThemeInfo("", "")

MONTHLY_THEMES ==
    <<ThemeInfo("Discipline and Self-Improvement",
                "Focus on building habits, self-control, and starting fresh"),
      ThemeInfo("Relationships and Community",
                "Our connections to others, love, friendship, and social virtue"),
      ThemeInfo("Resilience and Adversity",
                "Facing challenges, growing through difficulty, and mental toughness"),
      ThemeInfo("Nature and Acceptance",
                "Living in accordance with nature, accepting what is"),
      ThemeInfo("Virtue and Character",
                "The four cardinal virtues (wisdom, justice, courage, temperance)"),
      ThemeInfo("Wisdom and Philosophy",
                "The love of wisdom, continuous learning, and philosophical practice"),
      ThemeInfo("Freedom and Autonomy",
                "Inner freedom, independence of mind, and self-sufficiency"),
      ThemeInfo("Patience and Endurance",
                "Long-term thinking, persistence, and bearing hardship"),
      ThemeInfo("Purpose and Calling",
                "Finding meaning, living deliberately, and fulfilling your role"),
      ThemeInfo("Mortality and Impermanence",
                "Memento mori, making the most of time, and perspective on death"),
      ThemeInfo("Gratitude and Contentment",
                "Appreciating what we have, finding sufficiency, and thanksgiving"),
      ThemeInfo("Reflection and Legacy",
                "Year-end contemplation, examining life, and what we leave behind")>>

\* a get_monthly_theme that lets month 0 through to the table
get_monthly_theme_from_zero(month) ==
    IF month < 0 \/ month > 12
    THEN [status |-> "ValueError", value |-> NoTheme]
    ELSE IF month \in DOMAIN MONTHLY_THEMES
    THEN [status |-> "ok", value |-> MONTHLY_THEMES[month]]
    ELSE [status |-> "KeyError", value |-> NoTheme]

\* get_monthly_theme(month), month an int
get_monthly_theme(month) ==
    IF month < 1 \/ month > 12
    THEN [status |-> "ValueError", value |-> NoTheme]
    ELSE [status |-> "ok", value |-> MONTHLY_THEMES[month]]

\* get_theme_name(month): get_monthly_theme(month)["name"]
get_theme_name(month) ==
    LET theme == get_monthly_theme(month)
    IN [status |-> theme.status,
        value |-> IF theme.status = "ok" THEN theme.value.name ELSE ""]

\* get_theme_description(month): get_monthly_theme(month)["description"]
get_theme_description(month) ==
    LET theme == get_monthly_theme(month)
    IN [status |-> theme.status,
        value |-> IF theme.status = "ok" THEN theme.value.description ELSE ""]

ThemeCall(op, month, status, name, description) ==
    [op |-> op, month |-> month, status |-> status, name |-> name,
     description |-> description]

NoThemeCall == ThemeCall("none", 0, "ok", "", "")

GetMonthlyTheme(month) ==
    /\ LET r == get_monthly_theme(month)
       IN theme_call' = ThemeCall("get_monthly_theme", month, r.status,
                                  r.value.name, r.value.description)
    /\ UNCHANGED <<api_call, email_check>>
    /\ UNCHANGED resolverVars
    /\ UNCHANGED archiveVars
    /\ UNCHANGED handlerVars

GetThemeName(month) ==
    /\ LET r == get_theme_name(month)
       IN theme_call' = ThemeCall("get_theme_name", month, r.status, r.value, "")
    /\ UNCHANGED <<api_call, email_check>>
    /\ UNCHANGED resolverVars
    /\ UNCHANGED archiveVars
    /\ UNCHANGED handlerVars

GetThemeDescription(month) ==
    /\ LET r == get_theme_description(month)
       IN theme_call' = ThemeCall("get_theme_description", month, r.status, "",
                                  r.value)
    /\ UNCHANGED <<api_call, email_check>>
    /\ UNCHANGED resolverVars
    /\ UNCHANGED archiveVars
    /\ UNCHANGED handlerVars

(***************************************************************************)
(* email_formatter.validate_email_content.  A str is modelled by what the  *)
(* function looks at: the words it has and the whitespace around them.     *)
(***************************************************************************)
\* a str of `words` four-letter words joined by single blanks, with `blanks`
\* blanks before the first
Text(words, blanks) == [words |-> words, blanks |-> blanks]

EmptyText == Text(0, 0)

\* len(text), len(text.strip()) and len(text.split())
len(text) == text.blanks + (IF text.words = 0 THEN 0 ELSE 5 * text.words - 1)
len_strip(text) == IF text.words = 0 THEN 0 ELSE 5 * text.words - 1
len_split(text) == text.words

\* bool(text and len(text.strip()) > 0)
not_blank(text) == len(text) > 0 /\ len_strip(text) > 0

\* reflection.get(key, ''), reflection a dict of str
get_section(reflection, key) ==
    IF key \in DOMAIN reflection THEN reflection[key] ELSE EmptyText

\* a validation whose is_valid also asks for at most 250 words
validate_email_content_capped(quote, attribution, reflection) ==
    LET understanding == get_section(reflection, "understanding")
        connection == get_section(reflection, "connection")
        practice == get_section(reflection, "practice")
        total_words == len_split(understanding) + len_split(connection)
                           + len_split(practice)
        validation ==
            [has_quote |-> not_blank(quote),
             has_attribution |-> not_blank(attribution),
             has_understanding |-> not_blank(understanding),
             has_connection |-> not_blank(connection),
             has_practice |-> not_blank(practice),
             reflection_min_length |-> total_words >= 150,
             reflection_max_length |-> total_words <= 250]
    IN [has_quote |-> validation.has_quote,
        has_attribution |-> validation.has_attribution,
        has_understanding |-> validation.has_understanding,
        has_connection |-> validation.has_connection,
        has_practice |-> validation.has_practice,
        reflection_min_length |-> validation.reflection_min_length,
        reflection_max_length |-> validation.reflection_max_length,
        is_valid |-> /\ validation.has_quote
                     /\ validation.has_attribution
                     /\ validation.has_understanding
                     /\ validation.has_connection
                     /\ validation.has_practice
                     /\ validation.reflection_min_length
                     /\ validation.reflection_max_length]

\* validate_email_content(quote, attribution, reflection)
validate_email_content(quote, attribution, reflection) ==
    LET understanding == get_section(reflection, "understanding")
        connection == get_section(reflection, "connection")
        practice == get_section(reflection, "practice")
        total_words == len_split(understanding) + len_split(connection)
                           + len_split(practice)
        validation ==
            [has_quote |-> not_blank(quote),
             has_attribution |-> not_blank(attribution),
             has_understanding |-> not_blank(understanding),
             has_connection |-> not_blank(connection),
             has_practice |-> not_blank(practice),
             reflection_min_length |-> total_words >= 150,
             reflection_max_length |-> total_words <= 250]
    IN [has_quote |-> validation.has_quote,
        has_attribution |-> validation.has_attribution,
        has_understanding |-> validation.has_understanding,
        has_connection |-> validation.has_connection,
        has_practice |-> validation.has_practice,
        reflection_min_length |-> validation.reflection_min_length,
        reflection_max_length |-> validation.reflection_max_length,
        is_valid |-> /\ validation.has_quote
                     /\ validation.has_attribution
                     /\ validation.has_understanding
                     /\ validation.has_connection
                     /\ validation.has_practice
                     /\ validation.reflection_min_length]

\* the arguments of a validate_email_content call and, once called, its result
EmailCheck(called, quote, attribution, reflection, validation) ==
    [called |-> called, quote |-> quote, attribution |-> attribution,
     reflection |-> reflection, validation |-> validation]

NoValidation ==
    [has_quote |-> FALSE, has_attribution |-> FALSE, has_understanding |-> FALSE,
     has_connection |-> FALSE, has_practice |-> FALSE,
     reflection_min_length |-> FALSE, reflection_max_length |-> FALSE,
     is_valid |-> FALSE]

NoEmailCheck == EmailCheck(FALSE, EmptyText, EmptyText, <<>>, NoValidation)

ValidateEmailContent ==
    /\ ~email_check.called
    /\ email_check' =
         [email_check EXCEPT
            !.called = TRUE,
            !.validation = validate_email_content(email_check.quote,
                                                  email_check.attribution,
                                                  email_check.reflection)]
    /\ UNCHANGED <<api_call, theme_call>>
    /\ UNCHANGED resolverVars
    /\ UNCHANGED archiveVars
    /\ UNCHANGED handlerVars

(***************************************************************************)
(* api_handler.py: the read API of the reflections.  A path is modelled as *)
(* the sequence of its segments, "/reflection/today" as                    *)
(* <<"reflection", "today">>.                                              *)
(***************************************************************************)
\* path.strip('/').split('/'): the segments; the empty path splits into ['']
path_parts(path) == IF path = <<>> THEN <<"">> ELSE path

\* the texts datetime.strptime(text, '%Y-%m-%d') accepts: a day of the calendar,
\* month and day with or without the leading zero
StrptimeTexts ==
    {ToString(dt.year)
       \o "-" \o (IF zm THEN Pad2(dt.month) ELSE ToString(dt.month))
       \o "-" \o (IF zd THEN Pad2(dt.day) ELSE ToString(dt.day)) :
        dt \in {fromordinal(n, 0, FALSE) : n \in 1..CalendarDays},
        zm \in BOOLEAN, zd \in BOOLEAN}

\* datetime.strptime(text, '%Y-%m-%d'): the value is not used, only whether it
\* raises
strptime_ymd(text) == IF text \in StrptimeTexts THEN "ok" ELSE "ValueError"

\* a find_reflection_by_date that returns the last entry of the date
RECURSIVE find_reflection_by_date_last(_, _, _)
find_reflection_by_date_last(quotes, i, target_date) ==
    IF i > Len(quotes)
    THEN [status |-> "ok", found |-> FALSE, quote_entry |-> PyNone]
    ELSE LET rest == find_reflection_by_date_last(quotes, i + 1, target_date)
         IN IF quotes[i].t # "dict"
            THEN [status |-> "AttributeError", found |-> FALSE, quote_entry |-> PyNone]
            ELSE IF rest.status # "ok" \/ rest.found THEN rest
            ELSE IF HasKey(quotes[i], "date")
                    /\ GetKey(quotes[i], "date") = PyStr(target_date)
            THEN [status |-> "ok", found |-> TRUE, quote_entry |-> quotes[i]]
            ELSE rest

\* find_reflection_by_date(history, target_date) from the i-th entry:
\* the first entry whose quote_entry.get('date') == target_date, or None
RECURSIVE find_reflection_by_date(_, _, _)
find_reflection_by_date(quotes, i, target_date) ==
    IF i > Len(quotes)
    THEN [status |-> "ok", found |-> FALSE, quote_entry |-> PyNone]
    ELSE IF quotes[i].t # "dict"
    THEN [status |-> "AttributeError", found |-> FALSE, quote_entry |-> PyNone]
    ELSE IF HasKey(quotes[i], "date")
            /\ GetKey(quotes[i], "date") = PyStr(target_date)
    THEN [status |-> "ok", found |-> TRUE, quote_entry |-> quotes[i]]
    ELSE find_reflection_by_date(quotes, i + 1, target_date)

\* format_reflection_response(quote_entry), quote_entry a dict
format_reflection_response(quote_entry) ==
    LET parsed == entry_date(quote_entry)
        monthly_theme == get_monthly_theme(parsed.value.month)
        lacking == {f \in {"quote", "attribution", "theme", "reflection"} :
                       ~HasKey(quote_entry, f)}
    IN IF parsed.status # "ok" THEN [status |-> parsed.status, body |-> PyNone]
       ELSE IF monthly_theme.status # "ok"
       THEN [status |-> monthly_theme.status, body |-> PyNone]
       ELSE IF lacking # {} THEN [status |-> "KeyError", body |-> PyNone]
       ELSE [status |-> "ok",
             body |-> PyDict(<<
                 Item("date", GetKey(quote_entry, "date")),
                 Item("quote", GetKey(quote_entry, "quote")),
                 Item("attribution", GetKey(quote_entry, "attribution")),
                 Item("theme", GetKey(quote_entry, "theme")),
                 Item("reflection", GetKey(quote_entry, "reflection")),
                 Item("monthlyTheme", PyDict(<<
                     Item("name", PyStr(monthly_theme.value.name)),
                     Item("description",
                          PyStr(monthly_theme.value.description))>>))>>)]

\* create_response(status_code, body): body is the reflection of a 200 response,
\* error the 'error' of the others, date the 'date' of a 404
create_response(status_code, error, date, body) ==
    [statusCode |-> status_code, error |-> error, date |-> date, body |-> body]

\* api_handler.lambda_handler(event, context): the response, the store calls made
\* and the stored history left behind
api_lambda_handler(http_method, path, bucket_name, object, fault, clock) ==
    LET loaded == load_history(object, fault)
        parts == path_parts(path)
        target_date == IF parts[2] = "today" THEN strftime_ymd(clock) ELSE parts[2]
        it == iter_quotes(loaded.history)
        hit == find_reflection_by_date(it.elements, 1, target_date)
        formatted == format_reflection_response(hit.quote_entry)
        internal == create_response(500, "Internal server error", "", PyNone)
    IN IF http_method = "OPTIONS"
       THEN [response |-> create_response(200, "", "", PyNone), object |-> object,
             gets |-> 0, puts |-> 0]
       ELSE IF ~bucket_name
       THEN [response |-> create_response(500, "Server configuration error", "",
                                          PyNone),
             object |-> object, gets |-> 0, puts |-> 0]
       ELSE [object |-> loaded.object, gets |-> loaded.gets, puts |-> loaded.puts,
             response |->
                IF loaded.status # "ok" THEN internal
                ELSE IF Len(parts) < 2
                THEN create_response(400, "Invalid path", "", PyNone)
                ELSE IF parts[2] # "today" /\ strptime_ymd(parts[2]) # "ok"
                THEN create_response(400, "Invalid date format", "", PyNone)
                ELSE IF it.status # "ok" \/ hit.status # "ok" THEN internal
                ELSE IF ~hit.found
                THEN create_response(404, "Reflection not found", target_date, PyNone)
                ELSE IF formatted.status # "ok" THEN internal
                ELSE create_response(200, "", "", formatted.body)]

\* a request and what came of it; loaded is the history the handler read
ApiCall(http_method, path, bucket_name, fault, clock, response, gets, puts) ==
    [http_method |-> http_method, path |-> path, bucket_name |-> bucket_name,
     fault |-> fault, clock |-> clock, response |-> response, gets |-> gets,
     puts |-> puts]

NoApiCall ==
    ApiCall("none", <<>>, FALSE, "", NoDateTime,
            create_response(0, "", "", PyNone), 0, 0)

\* one request to the API
ApiRequest(http_method, path, bucket_name, fault) ==
    /\ LET r == api_lambda_handler(http_method, path, bucket_name, s3_history,
                                   fault, now)
       IN /\ api_call' = ApiCall(http_method, path, bucket_name, fault, now,
                                 r.response, r.gets, r.puts)
          /\ s3_history' = r.object
    /\ UNCHANGED <<theme_call, email_check>>
    /\ UNCHANGED <<history, appended, origin, persisted, s3_calls, tracker_outcome,
                   now, scan_call>>
    /\ UNCHANGED resolverVars
    /\ UNCHANGED handlerVars

(***************************************************************************)
(* Specifications.                                                         *)
(***************************************************************************)
\* no lambda_handler invocation exists
HandlerIdle ==
    /\ runs = <<>>
    /\ started = 0
    /\ ledger = <<>>
    /\ log = <<>>
    /\ sending = <<>>

\* no request to the API, no call of the themes or of the email validation
ServiceIdle ==
    /\ api_call = NoApiCall
    /\ theme_call = NoThemeCall
    /\ email_check = NoEmailCheck

ResolverIdle ==
    /\ s3_quotes = AbsentObject
    /\ loaders = <<>>
    /\ db_loads = 0
    /\ outcome = NoOutcome

ArchiveIdle ==
    /\ s3_history = AbsentObject
    /\ history = Unbound
    /\ appended = <<>>
    /\ origin = AbsentObject
    /\ persisted = NotPersisted
    /\ s3_calls = [gets |-> 0, puts |-> 0]
    /\ tracker_outcome = TrackerOutcome("none", "ok", "", 0)
    /\ now = Clock0
    /\ scan_call = NoScan
    /\ HandlerIdle
    /\ ServiceIdle

\* One lookup of a fresh loader, against every dataset document and every date.
InitResolver ==
    /\ s3_quotes \in {JsonObject(ds) : ds \in DatasetsWith(MaxLookupDefects)}
                     \cup {AbsentObject, InvalidJsonObject}
    /\ loaders = <<NoCache>>
    /\ db_loads = 0
    /\ outcome = NoOutcome
    /\ ArchiveIdle

NextResolver ==
    /\ outcome.op = "none"
    /\ \E date \in Dates, fault \in Faults : LoaderGetQuoteForDate(1, date, fault)

SpecResolver == InitResolver /\ [][NextResolver]_vars

\* The two integrity checks against every dataset document.
InitIntegrity ==
    /\ s3_quotes \in {JsonObject(ds) : ds \in DatasetsWith(MaxDefects)}
    /\ loaders = <<NoCache>>
    /\ db_loads = 0
    /\ outcome = NoOutcome
    /\ ArchiveIdle

NextIntegrity ==
    \/ \E fault \in Faults : LoaderValidate(1, fault)
    \/ ScriptValidate

SpecIntegrity == InitIntegrity /\ [][NextIntegrity]_vars

\* One process: loaders are made and used while the stored dataset is replaced.
CacheDates ==
    {[year |-> 2025, month |-> 2, day |-> 28], [year |-> 2024, month |-> 2, day |-> 29],
     [year |-> 2025, month |-> 11, day |-> 30]}

CacheObjects ==
    {AbsentObject, InvalidJsonObject, JsonObject(CompleteDataset),
     JsonObject(ApplyDefect(CompleteDataset,
         [op |-> "DuplicateDay", month |-> "february", day |-> 28, field |-> ""]))}

InitCache ==
    /\ s3_quotes = JsonObject(CompleteDataset)
    /\ loaders = <<>>
    /\ db_loads = 0
    /\ outcome = NoOutcome
    /\ ArchiveIdle

NextCache ==
    \/ NewQuoteLoader
    \/ \E l \in 1..Len(loaders), date \in CacheDates, fault \in Faults :
          LoaderGetQuoteForDate(l, date, fault)
    \/ \E date \in CacheDates, fault \in Faults : ConvenienceGetQuoteForDate(date, fault)
    \/ \E object \in CacheObjects : PutDataset(object)

SpecCache == InitCache /\ [][NextCache]_vars

\* One caller of the tracker against every history document.
InitArchive ==
    /\ ResolverIdle
    /\ s3_history \in HistoryObjects
    /\ history = Unbound
    /\ appended = <<>>
    /\ origin = AbsentObject
    /\ persisted = NotPersisted
    /\ s3_calls = [gets |-> 0, puts |-> 0]
    /\ tracker_outcome = TrackerOutcome("none", "ok", "", 0)
    /\ now = Clock0
    /\ scan_call = NoScan
    /\ HandlerIdle
    /\ ServiceIdle

NextArchive ==
    \/ \E fault \in Faults : LoadHistory(fault)
    \/ \E x \in EntryInputs : AddQuote(x)
    \/ \E fault \in Faults : SaveHistory(fault)
    \/ GetQuoteCount

SpecArchive == InitArchive /\ [][NextArchive]_vars

\* The scans against every history: entries of several ages around the clock,
\* entries without a date, with a text that is no date, with null for a date,
\* and with a date text carrying a UTC offset.
Clocks == {DateTime(Clock0.year, Clock0.month, Clock0.day, secs, FALSE) :
              secs \in TimesOfDay}

DaysAgo(days) == strftime_ymd(minus_days(Clock0, days))

EntryAges == {0, 17, 22, 100, 365, 400, 500}

ScanEntries ==
    {NewEntry(DaysAgo(days), "q", ToString(days) \o " days ago", "r", "t") :
        days \in EntryAges}
    \cup {PyDict(<<Item("quote", PyStr("q")), Item("attribution", PyStr("no date"))>>),
          NewEntry("not-a-date", "q", "unparsable", "r", "t"),
          PyDict(<<Item("date", PyNone), Item("attribution", PyStr("null date"))>>),
          NewEntry(isoformat(minus_days(DateTime(Clock0.year, Clock0.month,
                                                 Clock0.day, 0, TRUE), 17)),
                   "q", "aware", "r", "t")}

RECURSIVE SeqsUpTo(_, _)
SeqsUpTo(S, n) ==
    IF n = 0 THEN {<<>>}
    ELSE LET shorter == SeqsUpTo(S, n - 1)
         IN shorter \cup {Append(sq, x) : sq \in shorter, x \in S}

ScanArchives ==
    {PyDict(<<>>)}
    \cup {PyDict(<<Item("quotes", PyList(xs))>>) : xs \in SeqsUpTo(ScanEntries, MaxScanEntries)}

KeepDays == {0, 100, 400}

InitScan ==
    /\ ResolverIdle
    /\ s3_history = AbsentObject
    /\ history \in ScanArchives
    /\ appended = <<>>
    /\ origin = AbsentObject
    /\ persisted = NotPersisted
    /\ s3_calls = [gets |-> 0, puts |-> 0]
    /\ tracker_outcome = TrackerOutcome("none", "ok", "", 0)
    /\ now \in Clocks
    /\ scan_call = NoScan
    /\ HandlerIdle
    /\ ServiceIdle

NextScan ==
    /\ scan_call.op = "none"
    /\ \/ \E current_date \in Clocks : GetCurrentMonthQuotes(current_date)
       \/ \E keep_days \in KeepDays : CleanupOldQuotes(keep_days)
       \/ AttributionsUsedWithin(365)

SpecScan == InitScan /\ [][NextScan]_vars

\* The daily send, one invocation at a time, over the days: the stored history
\* starts absent, or with entries 400 days old, of today and with an unparsable
\* date, or with an entry whose date is null.
StoredHistory(entries) ==
    JsonObject(json_dumps(PyDict(<<Item("quotes", PyList(entries))>>)))

DailyStores ==
    {AbsentObject,
     StoredHistory(<<NewEntry(DaysAgo(400), "q", "400 days ago", "r", "t"),
                     NewEntry("not-a-date", "q", "unparsable", "r", "t"),
                     NewEntry(DaysAgo(0), "q", "0 days ago", "r", "t")>>),
     StoredHistory(<<NewEntry(DaysAgo(35), "q", "35 days ago", "r", "t"),
                     PyDict(<<Item("date", PyNone),
                              Item("attribution", PyStr("null date"))>>)>>)}

\* the days after Clock0 on which the model looks at the service
ClockOffsets == {0, 1, 365, 366, 400, 401}

Offset(clock) == toordinal(clock) - toordinal(Clock0)

InitDaily ==
    /\ ResolverIdle
    /\ s3_history \in DailyStores
    /\ history = Unbound
    /\ appended = <<>>
    /\ origin = AbsentObject
    /\ persisted = NotPersisted
    /\ s3_calls = [gets |-> 0, puts |-> 0]
    /\ tracker_outcome = TrackerOutcome("none", "ok", "", 0)
    /\ now \in Clocks
    /\ scan_call = NoScan
    /\ runs = <<IdleRun>>
    /\ started = 0
    /\ ledger = <<>>
    /\ log = <<>>
    /\ sending = <<NoSending>>
    /\ ServiceIdle

NextDaily ==
    \/ \E env \in BOOLEAN :
          RunStart(1, env, "ok", RecipientConfig("json", <<"a@example.com">>),
                   "reflection a")
    \/ \E fault \in Faults : RunLoadHistory(1, fault)
    \/ RunAddQuote(1)
    \/ RunCleanup(1)
    \/ \E fault \in Faults : RunSaveHistory(1, fault)
    \/ RunSendEmail(1, "")
    \/ \E to \in ClockOffsets : Tick(to - Offset(now))

SpecDaily == InitDaily /\ [][NextDaily]_vars

\* The daily send on one day, one invocation at a time, with everything that can
\* go wrong before the history step and with sends that fail.
\* how the quote lookup of an invocation ends, and the recipients.json it finds
Lookups == {"ok", "DayNotFound"}

RecipientConfigs ==
    {RecipientConfig("error", <<>>), RecipientConfig("invalid_json", <<>>),
     RecipientConfig("not_a_list", <<>>), RecipientConfig("json", <<>>),
     RecipientConfig("json", <<" ">>),
     RecipientConfig("json", <<"a@example.com">>),
     RecipientConfig("json", <<"a@example.com", "", "b@example.com">>)}

InitSend == InitDaily

NextSend ==
    \/ \E env \in BOOLEAN, lookup \in Lookups, config \in RecipientConfigs,
          reflection \in {"reflection a", NoReflection} :
          RunStart(1, env, lookup, config, reflection)
    \/ \E fault \in Faults : RunLoadHistory(1, fault)
    \/ RunAddQuote(1)
    \/ RunCleanup(1)
    \/ \E fault \in Faults : RunSaveHistory(1, fault)
    \/ \E fault \in Faults : RunSendEmail(1, fault)

SpecSend == InitSend /\ [][NextSend]_vars

\* Two invocations of the daily send at once, on one day.
InitConcurrent ==
    /\ ResolverIdle
    /\ s3_history \in DailyStores
    /\ history = Unbound
    /\ appended = <<>>
    /\ origin = AbsentObject
    /\ persisted = NotPersisted
    /\ s3_calls = [gets |-> 0, puts |-> 0]
    /\ tracker_outcome = TrackerOutcome("none", "ok", "", 0)
    /\ now \in Clocks
    /\ scan_call = NoScan
    /\ runs = <<IdleRun, IdleRun>>
    /\ started = 0
    /\ ledger = <<>>
    /\ log = <<>>
    /\ sending = <<NoSending, NoSending>>
    /\ ServiceIdle

NextConcurrent ==
    \/ \E i \in DOMAIN runs, reflection \in Reflections, env \in BOOLEAN :
          RunStart(i, env, "ok", RecipientConfig("json", <<"a@example.com">>),
                   reflection)
    \/ \E i \in DOMAIN runs, fault \in Faults : RunLoadHistory(i, fault)
    \/ \E i \in DOMAIN runs : RunAddQuote(i)
    \/ \E i \in DOMAIN runs : RunCleanup(i)
    \/ \E i \in DOMAIN runs, fault \in Faults : RunSaveHistory(i, fault)
    \/ \E i \in DOMAIN runs : RunSendEmail(i, "")

SpecConcurrent == InitConcurrent /\ [][NextConcurrent]_vars

\* One caller of the tracker against stored documents that lack the 'quotes'
\* key: every operation between the load and the save.
KeylessObjects ==
    {JsonObject(JObject(<<>>)),
     JsonObject(JObject(<<Member("version", JString("1"))>>))}

InitKeyless ==
    /\ ResolverIdle
    /\ s3_history \in KeylessObjects \cup {StoredHistory(<<>>)}
    /\ history = Unbound
    /\ appended = <<>>
    /\ origin = AbsentObject
    /\ persisted = NotPersisted
    /\ s3_calls = [gets |-> 0, puts |-> 0]
    /\ tracker_outcome = TrackerOutcome("none", "ok", "", 0)
    /\ now \in Clocks
    /\ scan_call = NoScan
    /\ HandlerIdle
    /\ ServiceIdle

\* one load, then the other operations in any order up to the first save
KeylessInputs == {x \in EntryInputs : x.reflection = "r1"}

NextKeyless ==
    /\ tracker_outcome.op # "save_history"
    /\ \/ \E fault \in Faults : history = Unbound /\ LoadHistory(fault)
       \/ \E x \in KeylessInputs : AddQuote(x)
       \/ GetQuoteCount
       \/ GetCurrentMonthQuotes(now)
       \/ CleanupOldQuotes(400)
       \/ \E fault \in Faults : SaveHistory(fault)

SpecKeyless == InitKeyless /\ [][NextKeyless]_vars

\* The functions of themes.py against month numbers in and around 1..12.
MaxMonthsOutside == 20

MonthInputs == (1 - MaxMonthsOutside)..(12 + MaxMonthsOutside)

InitThemes ==
    /\ ResolverIdle
    /\ ArchiveIdle

NextThemes ==
    \/ \E month \in MonthInputs : GetMonthlyTheme(month)
    \/ \E month \in MonthInputs : GetThemeName(month)
    \/ \E month \in MonthInputs : GetThemeDescription(month)

SpecThemes == InitThemes /\ [][NextThemes]_vars

\* validate_email_content against quotes, attributions and reflections: empty,
\* blank and worded texts, sections missing, totals around 150 and 250 words.
SectionTexts ==
    {EmptyText, Text(0, 1)}
    \cup {Text(words, 0) : words \in {1, 50, 74, 75, 100, 149, 150}}

LineTexts == {EmptyText, Text(0, 2), Text(2, 0), Text(3, 1)}

ReflectionInputs ==
    UNION {[sections -> SectionTexts] :
              sections \in {{"understanding", "connection", "practice"},
                            {"understanding", "connection"}, {}}}

InitEmail ==
    /\ ResolverIdle
    /\ s3_history = AbsentObject
    /\ history = Unbound
    /\ appended = <<>>
    /\ origin = AbsentObject
    /\ persisted = NotPersisted
    /\ s3_calls = [gets |-> 0, puts |-> 0]
    /\ tracker_outcome = TrackerOutcome("none", "ok", "", 0)
    /\ now = Clock0
    /\ scan_call = NoScan
    /\ HandlerIdle
    /\ api_call = NoApiCall
    /\ theme_call = NoThemeCall
    /\ email_check \in {EmailCheck(FALSE, quote, attribution, reflection, NoValidation) :
                           quote \in LineTexts, attribution \in LineTexts,
                           reflection \in ReflectionInputs}

NextEmail == ValidateEmailContent

SpecEmail == InitEmail /\ [][NextEmail]_vars

\* Requests to the reflections API against stored histories: absent, no JSON,
\* without 'quotes', with the entries the daily send writes (two of today, one
\* of October 5), and with an entry of today that lacks fields.
ApiStores ==
    {AbsentObject, InvalidJsonObject, JsonObject(JObject(<<>>)),
     StoredHistory(<<NewEntry(DaysAgo(17), "q17", "a17", "r17", "t"),
                     PyDict(<<Item("date", PyNone),
                              Item("attribution", PyStr("null date"))>>),
                     NewEntry(DaysAgo(0), "q0", "a0", "r0", "t"),
                     NewEntry(DaysAgo(0), "q0", "a0", "r0 again", "t")>>),
     StoredHistory(<<PyDict(<<Item("date", PyStr(DaysAgo(0))),
                              Item("attribution", PyStr("a0")),
                              Item("theme", PyStr("t"))>>),
                     NewEntry(DaysAgo(1), "q1", "a1", "r1", "t")>>)}

DateSegments ==
    {"today", "2025-10-22", "2025-10-21", "2025-10-05", "2025-10-5", "2025-10-20",
     "2025-02-30", "2025-13-01", "not-a-date", "20251022", "2025-10-22T00:00:00",
     "TODAY"}

ApiPaths ==
    {<<>>, <<"reflection">>, <<"reflection", "2025-10-22", "extra">>}
    \cup {<<"reflection", segment>> : segment \in DateSegments}

InitApi ==
    /\ ResolverIdle
    /\ s3_history \in ApiStores
    /\ history = Unbound
    /\ appended = <<>>
    /\ origin = AbsentObject
    /\ persisted = NotPersisted
    /\ s3_calls = [gets |-> 0, puts |-> 0]
    /\ tracker_outcome = TrackerOutcome("none", "ok", "", 0)
    /\ now \in Clocks
    /\ scan_call = NoScan
    /\ HandlerIdle
    /\ ServiceIdle

NextApi ==
    \E http_method \in {"GET", "OPTIONS"}, path \in ApiPaths, bucket_name \in BOOLEAN,
       fault \in Faults :
        ApiRequest(http_method, path, bucket_name, fault)

SpecApi == InitApi /\ [][NextApi]_vars

(***************************************************************************)
(* Properties of the lookup (SpecResolver).                                *)
(***************************************************************************)
LoadErrors == {"ClientError", "DatasetNotFound", "InvalidJSON"}

\* the last call was a lookup that got as far as the loaded database
Looked == outcome.op = "get_quote_for_date" /\ outcome.result.status \notin LoadErrors

IsLeapDay(date) == date.month = 2 /\ date.day = 29
AskedMonth == MonthNames[outcome.date.month]
\* the day number the lookup is for: the date's day, February 29 standing for 28
AskedDay == IF IsLeapDay(outcome.date) THEN 28 ELSE outcome.date.day

RecordsOf(db, m) == {db[m][i] : i \in 1..Len(db[m])}
WellFormed(r) ==
    /\ \A i \in 1..Len(required_fields) : required_fields[i] \in DOMAIN r
    /\ r["quote"] # NoText /\ r["attribution"] # NoText /\ r["theme"] # NoText
AllHaveDay(db, m) == \A r \in RecordsOf(db, m) : "day" \in DOMAIN r

\* month m of db holds exactly one record, well formed, for each of its days
MonthComplete(db, m) ==
    /\ Len(db[m]) = expected_days[m]
    /\ \A r \in RecordsOf(db, m) : WellFormed(r)
    /\ \A d \in 1..expected_days[m] : \E r \in RecordsOf(db, m) : r["day"] = d
IsCompleteDataset(db) ==
    DOMAIN db = Months /\ \A m \in Months : MonthComplete(db, m)
IsCompleteExcept(db, m0) ==
    DOMAIN db = Months \ {m0} /\ \A m \in DOMAIN db : MonthComplete(db, m)

\* C1: a lookup for February 29 returns exactly what a lookup for February 28
\* returns on the same dataset, record or error, in the leap year and in any
\* other year; a lookup for any other date looks for the date's own month and day.
C1_LeapDayFolds ==
    Looked =>
        IF IsLeapDay(outcome.date)
        THEN /\ outcome.result =
                  get_quote_for_date(s3_quotes.value, [outcome.date EXCEPT !.day = 28])
             /\ outcome.result =
                  get_quote_for_date(s3_quotes.value,
                                     [year |-> 2025, month |-> 2, day |-> 28])
        ELSE /\ outcome.result.month = AskedMonth
             /\ outcome.result.status # "MonthNotFound"
                   => outcome.result.day = outcome.date.day
             /\ outcome.result.status = "ok"
                   => \E r \in RecordsOf(s3_quotes.value, AskedMonth) :
                         /\ HasDay(r, outcome.date.day)
                         /\ WellFormed(r)
                         /\ outcome.result.quote = r["quote"]

\* February 29 was looked up in a dataset that even holds a record with day 29 in
\* february, and the February 28 record came back.
C1_Witness ==
    /\ Looked
    /\ outcome.date = [year |-> 2024, month |-> 2, day |-> 29]
    /\ "february" \in DOMAIN s3_quotes.value
    /\ \E r \in RecordsOf(s3_quotes.value, "february") : HasDay(r, 29)
    /\ outcome.result.status = "ok"
    /\ outcome.result.quote = QuoteText("february", 28, 0)

\* C2: on a complete dataset every date of a non-leap year resolves to the quote,
\* attribution and theme, all non-empty, of the record of its month and day.
C2_CompleteDatasetResolves ==
    (Looked /\ IsCompleteDataset(s3_quotes.value) /\ ~IsLeapDay(outcome.date)) =>
        LET r == CHOOSE r \in RecordsOf(s3_quotes.value, AskedMonth) :
                     r["day"] = outcome.date.day
        IN /\ outcome.result.status = "ok"
           /\ outcome.result.quote = r["quote"] /\ r["quote"] # NoText
           /\ outcome.result.attribution = r["attribution"] /\ r["attribution"] # NoText
           /\ outcome.result.theme = r["theme"] /\ r["theme"] # NoText

\* December 31 was resolved on a complete dataset whose december is not in day order.
C2_Witness ==
    /\ Looked
    /\ IsCompleteDataset(s3_quotes.value)
    /\ s3_quotes.value # CompleteDataset
    /\ outcome.date = [year |-> 2025, month |-> 12, day |-> 31]
    /\ outcome.result.quote = QuoteText("december", 31, 0)

\* C3: on a dataset that lacks one month and is complete otherwise, every date of
\* that month fails with MonthNotFound and every other date succeeds.
C3_MissingMonthOnly ==
    \A m0 \in Months :
        (Looked /\ IsCompleteExcept(s3_quotes.value, m0)) =>
            IF AskedMonth = m0
            THEN outcome.result.status = "MonthNotFound" /\ outcome.result.month = m0
            ELSE outcome.result.status = "ok"

\* A date of november failed with MonthNotFound on the dataset without november.
C3_Witness ==
    /\ Looked
    /\ IsCompleteExcept(s3_quotes.value, "november")
    /\ outcome.date = [year |-> 2025, month |-> 11, day |-> 5]
    /\ outcome.result.status = "MonthNotFound"

\* C4 as claimed: a month that has no entries at all (key absent, or present with
\* an empty sequence) gives MonthNotFound, a month that has entries but none for
\* the day gives DayNotFound.  Stated for datasets all of whose records carry a day.
C4_EmptyMonthIsMonthNotFound ==
    (Looked /\ (AskedMonth \in DOMAIN s3_quotes.value
                   => AllHaveDay(s3_quotes.value, AskedMonth))) =>
        /\ (AskedMonth \notin DOMAIN s3_quotes.value
              \/ s3_quotes.value[AskedMonth] = <<>>)
           => outcome.result.status = "MonthNotFound"
        /\ (/\ AskedMonth \in DOMAIN s3_quotes.value
            /\ s3_quotes.value[AskedMonth] # <<>>
            /\ ~\E r \in RecordsOf(s3_quotes.value, AskedMonth) : HasDay(r, AskedDay))
           => outcome.result.status = "DayNotFound"

\* C4 amended: MonthNotFound is reported exactly when the month key is absent;
\* a month whose key is present, its sequence empty or not, and none of whose
\* records (all carrying a day) has the day gives DayNotFound; DayNotFound is
\* only ever reported for a present month without a record of the day.
C4_MonthKeyDecides ==
    Looked =>
        /\ outcome.result.status = "MonthNotFound"
              <=> AskedMonth \notin DOMAIN s3_quotes.value
        /\ (/\ AskedMonth \in DOMAIN s3_quotes.value
            /\ AllHaveDay(s3_quotes.value, AskedMonth)
            /\ ~\E r \in RecordsOf(s3_quotes.value, AskedMonth) : HasDay(r, AskedDay))
           => outcome.result.status = "DayNotFound"
        /\ outcome.result.status = "DayNotFound"
           => /\ AskedMonth \in DOMAIN s3_quotes.value
              /\ ~\E r \in RecordsOf(s3_quotes.value, AskedMonth) : HasDay(r, AskedDay)

\* A date of a month that is present but empty failed with DayNotFound.
C4_Witness ==
    /\ Looked
    /\ AskedMonth \in DOMAIN s3_quotes.value
    /\ s3_quotes.value[AskedMonth] = <<>>
    /\ outcome.result.status = "DayNotFound"

\* C5 as claimed: whenever the month's sequence holds a well-formed record of the
\* requested day, the lookup succeeds with the quote of such a record, whatever
\* else is wrong with the dataset.
C5_PresentDayResolves ==
    (/\ Looked
     /\ AskedMonth \in DOMAIN s3_quotes.value
     /\ \E r \in RecordsOf(s3_quotes.value, AskedMonth) :
           HasDay(r, AskedDay) /\ WellFormed(r)) =>
        /\ outcome.result.status = "ok"
        /\ \E r \in RecordsOf(s3_quotes.value, AskedMonth) :
              /\ HasDay(r, AskedDay) /\ WellFormed(r)
              /\ outcome.result.quote = r["quote"]

(***************************************************************************)
(* Properties of the dataset cache (SpecCache).                            *)
(***************************************************************************)
\* C6 as claimed: in one process the dataset is loaded from the store at most once.
C6_LoadedOncePerProcess == db_loads <= 1

(***************************************************************************)
(* Properties of the integrity checks (SpecIntegrity).                     *)
(***************************************************************************)
Validated ==
    /\ outcome.op \in {"validate_database_completeness", "validate_quotes_database"}
    /\ outcome.result.status = "ok"

\* the pairs of the non-leap calendar for which the dataset holds no record
CalendarPairsWithoutRecord(db) ==
    UNION {{<<m, d>> : d \in {e \in 1..expected_days[m] :
                                m \notin DOMAIN db
                                \/ \A r \in RecordsOf(db, m) : ~HasDay(r, e)}} :
             m \in Months}

\* the day values of a month's records, the absent one included
DayValues(db, m) == {get_day(r) : r \in RecordsOf(db, m)}

Occurrences(month_quotes, d) ==
    Cardinality({i \in 1..Len(month_quotes) : get_day(month_quotes[i]) = d})

\* the pairs whose day value occurs more than once in its month
PairsOccurringTwice(db) ==
    UNION {{<<m, d>> : d \in {e \in DayValues(db, m) : Occurrences(db[m], e) > 1}} :
             m \in Months \cap DOMAIN db}

SeqRange(sq) == {sq[i] : i \in 1..Len(sq)}

TotalRecords(db) ==
    LET RECURSIVE Sum(_)
        Sum(k) == IF k = 0 THEN 0
                  ELSE Sum(k - 1) + (IF MonthNames[k] \in DOMAIN db
                                     THEN Len(db[MonthNames[k]]) ELSE 0)
    IN Sum(Len(MonthNames))

SomeRecordLacksField(db) ==
    \E m \in Months \cap DOMAIN db : \E r \in RecordsOf(db, m) : ~WellFormed(r)

ReportsMissingAndDuplicates ==
    /\ SeqRange(outcome.result.missing_days) = CalendarPairsWithoutRecord(s3_quotes.value)
    /\ SeqRange(outcome.result.duplicate_days) = PairsOccurringTwice(s3_quotes.value)
    /\ outcome.result.total_quotes = TotalRecords(s3_quotes.value)

ThreeConditions ==
    /\ outcome.result.missing_days = <<>>
    /\ outcome.result.duplicate_days = <<>>
    /\ outcome.result.total_quotes = 365

OneMissingOneDuplicated ==
    ApplyDefect(ApplyDefect(CompleteDataset, Defect("RemoveDay", "november", 30, "")),
                Defect("DuplicateDay", "february", 28, ""))

ReportsThatPair ==
    /\ outcome.result.complete = FALSE
    /\ outcome.result.missing_days = << <<"november", 30>> >>
    /\ outcome.result.duplicate_days = << <<"february", 28>> >>

\* C7 as stated: both checks report the calendar pairs without a record as
\* missing, the pairs occurring more than once as duplicates, and complete
\* exactly when missing and duplicates are empty and the total is 365.
C7_CompleteIffThreeConditions ==
    Validated =>
        /\ ReportsMissingAndDuplicates
        /\ outcome.result.complete <=> ThreeConditions
        /\ s3_quotes.value = OneMissingOneDuplicated => ReportsThatPair

\* C7, amended: missing and duplicates are as stated (a record without a day
\* counts under the absent day value); QuoteLoader.validate_database_completeness
\* reports complete exactly when missing and duplicates are empty and the total
\* is 365, validate_quotes_database exactly when in addition no record lacks a
\* required field; one day missing and one duplicated is reported complete =
\* false with that missing pair and that duplicate pair.
C7_CompleteIffPerCheck ==
    Validated =>
        /\ ReportsMissingAndDuplicates
        /\ outcome.op = "validate_database_completeness" =>
              (outcome.result.complete <=> ThreeConditions)
        /\ outcome.op = "validate_quotes_database" =>
              (outcome.result.complete <=>
                  ThreeConditions /\ ~SomeRecordLacksField(s3_quotes.value))
        /\ s3_quotes.value = OneMissingOneDuplicated => ReportsThatPair

\* C7: a check has run on the dataset with November 30 removed and a second
\* February 28 record, and reported it incomplete with that pair
C7_Witness ==
    /\ Validated
    /\ s3_quotes.value = OneMissingOneDuplicated
    /\ outcome.result.total_quotes = 365
    /\ ReportsThatPair

\* C8 as stated: whenever some record lacks a required field neither check
\* reports complete = true, so the two checks agree on complete for every dataset.
C8_FieldPresenceChecked ==
    Validated =>
        /\ SomeRecordLacksField(s3_quotes.value) => outcome.result.complete = FALSE
        /\ outcome.result.complete
              = validate_database_completeness(s3_quotes.value).complete
        /\ outcome.result.complete
              = validate_quotes_database(s3_quotes.value).complete

(***************************************************************************)
(* Properties of the archive (SpecArchive).                                *)
(***************************************************************************)
EntryFields == {"date", "quote", "attribution", "theme", "reflection"}

\* history.get('quotes', []) of a loaded archive
QuotesOf(h) == IF HasKey(h, "quotes") THEN GetKey(h, "quotes").xs ELSE <<>>

\* the store before the first append: no document, or a document without entries
EmptyArchives ==
    {AbsentObject, JsonObject(JObject(<<>>)),
     JsonObject(JObject(<<Member("quotes", JArray(<<>>))>>))}

Reloaded ==
    /\ tracker_outcome.op = "load_history"
    /\ tracker_outcome.status = "ok"
    /\ persisted.valid
    /\ persisted.origin \in EmptyArchives

\* C9: after N add_quote calls on an absent or empty archive, save_history and
\* load_history, the loaded archive has exactly N entries, the i-th carrying
\* the date, quote, attribution, theme and reflection of the i-th append.
C9_RoundTrip ==
    Reloaded =>
        /\ history.t = "dict"
        /\ Len(QuotesOf(history)) = Len(persisted.appended)
        /\ \A i \in 1..Len(persisted.appended) :
              /\ QuotesOf(history)[i].t = "dict"
              /\ \A f \in EntryFields :
                    /\ HasKey(QuotesOf(history)[i], f)
                    /\ GetKey(QuotesOf(history)[i], f) = PyStr(persisted.appended[i][f])

\* C9: three appends, the first two different, saved from an absent archive
\* and loaded back
C9_Witness ==
    /\ Reloaded
    /\ persisted.origin = AbsentObject
    /\ Len(persisted.appended) = 3
    /\ persisted.appended[1] # persisted.appended[2]
    /\ Len(QuotesOf(history)) = 3

LoadFailed == tracker_outcome.status # "ok" /\ history = Unbound

Moment(dt) == toordinal(dt) * 86400 + dt.secs

\* the entry has a date that parses: a text fromisoformat accepts
DateParses(e) ==
    /\ e.t = "dict"
    /\ HasKey(e, "date")
    /\ GetKey(e, "date").t = "str"
    /\ fromisoformat(GetKey(e, "date").s).status = "ok"

ParsedDate(e) == fromisoformat(GetKey(e, "date").s).value

\* the entry's date parses, to a moment without offset, not before clock - keep_days
NotOlderThan(e, clock, keep_days) ==
    /\ DateParses(e)
    /\ ~ParsedDate(e).aware
    /\ Moment(ParsedDate(e)) >= Moment(clock) - keep_days * 86400

Pruned == scan_call.op = "cleanup_old_quotes"

EntriesBefore == QuotesOf(scan_call.history)

\* C11 as stated: for every history, keep_days and clock, cleanup_old_quotes
\* leaves exactly the entries whose date parses and is not strictly older than
\* now - keep_days, in their order, and get_quote_count drops by the number
\* removed; with keep_days = 400 an entry 500 days old goes and one 100 days
\* old stays.
C11_PruneKeepsExactly ==
    Pruned =>
        /\ scan_call.status = "ok"
        /\ QuotesOf(history) =
              SelectSeq(EntriesBefore,
                        LAMBDA e : NotOlderThan(e, scan_call.clock, scan_call.keep_days))
        /\ get_quote_count(history).n =
              get_quote_count(scan_call.history).n
                - Cardinality({i \in 1..Len(EntriesBefore) :
                      ~NotOlderThan(EntriesBefore[i], scan_call.clock,
                                    scan_call.keep_days)})
        /\ scan_call.keep_days = 400 =>
              \A i \in 1..Len(EntriesBefore) :
                 /\ GetKey(EntriesBefore[i], "attribution") = PyStr("500 days ago")
                       => \A k \in 1..Len(QuotesOf(history)) :
                             QuotesOf(history)[k] # EntriesBefore[i]
                 /\ GetKey(EntriesBefore[i], "attribution") = PyStr("100 days ago")
                       => \E k \in 1..Len(QuotesOf(history)) :
                             QuotesOf(history)[k] = EntriesBefore[i]

MonthScanned == scan_call.op = "get_current_month_quotes"

\* the entry's date parses to a day of the reference's month and year that is
\* before the reference's day
BeforeThatDay(e, reference) ==
    /\ DateParses(e)
    /\ ParsedDate(e).month = reference.month
    /\ ParsedDate(e).year = reference.year
    /\ toordinal(ParsedDate(e)) < toordinal(reference)

\* C12 as stated: whenever get_current_month_quotes returns, for a reference
\* taken at midnight or at any other time of day, it returns exactly the entries
\* dated in the reference's month and year and strictly before the reference's
\* calendar day, so never an entry dated the reference's day or another month
\* or year.
C12_MonthScanBeforeToday ==
    MonthScanned /\ scan_call.status = "ok" =>
        scan_call.result.xs =
            SelectSeq(EntriesBefore, LAMBDA e : BeforeThatDay(e, scan_call.current_date))

\* an entry whose date is a text that parses to a moment without offset
WellFormedEntry(e) == DateParses(e) /\ ~ParsedDate(e).aware

\* the history with the malformed entries taken out
WithoutMalformed(h) ==
    IF HasKey(h, "quotes")
    THEN SetKey(h, "quotes", PyList(SelectSeq(QuotesOf(h), WellFormedEntry)))
    ELSE h

\* C13 as stated: whatever entries lack a date, carry a text that does not
\* parse, a date that is no string or one with a UTC offset, both scans
\* complete without raising and give what they give on the history without
\* those entries.
C13_MalformedEntriesSkipped ==
    /\ MonthScanned =>
          /\ scan_call.status = "ok"
          /\ scan_call.result.xs =
                get_current_month_quotes(WithoutMalformed(scan_call.history),
                                         scan_call.current_date).filtered_quotes
    /\ Pruned =>
          /\ scan_call.status = "ok"
          /\ QuotesOf(history) =
                QuotesOf(cleanup_old_quotes(WithoutMalformed(scan_call.history),
                                            scan_call.keep_days,
                                            scan_call.clock).history)

AttributionsOf(entries) ==
    [i \in 1..Len(entries) |-> GetKey(entries[i], "attribution")]

\* C14 as stated: attributions_used_within(archive, days) returns the
\* attribution of every entry whose date parses to now - days or later and of no
\* other entry; with days = 365 that of an entry from 1 to 100 days ago is in
\* it and that of an entry from 400 days ago is not.
C14_AttributionsUsedWithin ==
    scan_call.op = "attributions_used_within" =>
        /\ scan_call.status = "ok"
        /\ scan_call.result.xs =
              AttributionsOf(SelectSeq(EntriesBefore,
                  LAMBDA e : NotOlderThan(e, scan_call.clock, scan_call.keep_days)))

(***************************************************************************)
(* Properties of add_quote and save_history (SpecArchive).                 *)
(***************************************************************************)
\* the step is a call of add_quote that returned
AddQuoteStep ==
    /\ tracker_outcome'.op = "add_quote"
    /\ tracker_outcome'.status = "ok"
    /\ appended' # appended

LastOf(sq) == sq[Len(sq)]

\* C18: add_quote appends exactly one entry, made of its arguments, after the
\* entries there were, which stay as they are and in their order, and writes
\* nothing to the store; the stored document changes in save_history steps only.
C18_AddQuoteAppendsInMemory ==
    [][/\ AddQuoteStep =>
            /\ Len(QuotesOf(history')) = Len(QuotesOf(history)) + 1
            /\ SubSeq(QuotesOf(history'), 1, Len(QuotesOf(history))) = QuotesOf(history)
            /\ \A f \in EntryFields :
                  GetKey(LastOf(QuotesOf(history')), f) = PyStr(LastOf(appended')[f])
            /\ s3_history' = s3_history
            /\ s3_calls' = [gets |-> 0, puts |-> 0]
       /\ s3_history' # s3_history => tracker_outcome'.op = "save_history"]_vars

\* C18: add_quote has put a third entry after two, with a saved document in the store
C18_Witness ==
    /\ tracker_outcome.op = "add_quote"
    /\ tracker_outcome.status = "ok"
    /\ Len(QuotesOf(history)) = 3
    /\ QuotesOf(history)[3] = EntryOf(LastOf(appended))
    /\ QuotesOf(history)[3] # QuotesOf(history)[1]
    /\ persisted.valid
    /\ s3_history.kind = "json"

\* C20: save_history makes one put of the whole document and no other store
\* call; without a store error the stored document is the complete history;
\* with one the call fails and the stored document is what it was before.
C20_SaveIsOnePut ==
    /\ [](tracker_outcome.op = "save_history" =>
            /\ s3_calls = [gets |-> 0, puts |-> 1]
            /\ tracker_outcome.fault = "" =>
                  /\ s3_history = JsonObject(json_dumps(history))
                  /\ json_loads(s3_history.value) = history
            /\ tracker_outcome.fault # "" => tracker_outcome.status # "ok")
    /\ [][tracker_outcome'.op = "save_history" /\ tracker_outcome'.fault # ""
             => s3_history' = s3_history]_vars

\* C20: a save failed on a store error with two entries in memory and an
\* older document of one entry left in the store
C20_Witness ==
    /\ tracker_outcome.op = "save_history"
    /\ tracker_outcome.fault # ""
    /\ tracker_outcome.status # "ok"
    /\ Len(QuotesOf(history)) = 2
    /\ s3_history.kind = "json"
    /\ Len(QuotesOf(json_loads(s3_history.value))) = 1
    /\ s3_calls = [gets |-> 0, puts |-> 1]

(***************************************************************************)
(* Properties of the daily send (SpecConcurrent, SpecDaily).               *)
(***************************************************************************)
\* the entries of a stored history document
StoredQuotes(object) ==
    IF object.kind = "json" /\ json_loads(object.value).t = "dict"
    THEN QuotesOf(json_loads(object.value))
    ELSE <<>>

Count(entries, e) == Cardinality({k \in 1..Len(entries) : entries[k] = e})

SavePositions == {p \in 1..Len(log) : log[p].op = "save"}

\* the load of the invocation that saved at position p
LoadPosition(p) ==
    CHOOSE q \in 1..p :
        /\ log[q].op = "load" /\ log[q].run = log[p].run
        /\ \A q2 \in (q + 1)..p : ~(log[q2].op = "load" /\ log[q2].run = log[p].run)

\* the entry appended by the invocation that saved at position p
SavedEntry(p) == ledger[Cardinality({q \in SavePositions : q <= p})].entry

\* two invocations that both loaded before either saved, the one at sa saving first
Raced(sa, sb) ==
    /\ sa < sb
    /\ log[sa].run # log[sb].run
    /\ LoadPosition(sb) < sa

\* C15: when two invocations both load before either saves, the later saver's
\* document holds nothing of the earlier saver's append (its entry occurs there
\* as often as in what the later saver had loaded, once more if the later
\* saver appended an equal entry), the store is left with the last saved
\* document, and an invocation that saved ends with status 200.
C15_LostUpdate ==
    /\ \A sa \in SavePositions, sb \in SavePositions :
          Raced(sa, sb) =>
              Count(StoredQuotes(log[sb].object), SavedEntry(sa)) =
                  Count(StoredQuotes(log[LoadPosition(sb)].object), SavedEntry(sa))
                    + (IF SavedEntry(sb) = SavedEntry(sa) THEN 1 ELSE 0)
    /\ SavePositions # {} =>
          s3_history = log[CHOOSE p \in SavePositions :
                              \A q \in SavePositions : q <= p].object
    /\ \A i \in DOMAIN runs : runs[i].pc = "done" => runs[i].status = 200

\* C15: both invocations loaded the absent history, both saved and returned 200,
\* their reflections differ and the stored document has the second saver's
\* entry alone
C15_Witness ==
    /\ Len(log) = 4
    /\ log[1].op = "load" /\ log[2].op = "load"
    /\ log[3].op = "save" /\ log[4].op = "save"
    /\ log[1].object = AbsentObject
    /\ Raced(3, 4)
    /\ SavedEntry(3) # SavedEntry(4)
    /\ StoredQuotes(s3_history) = <<SavedEntry(4)>>
    /\ \A i \in DOMAIN runs : runs[i].pc = "done" /\ runs[i].status = 200

\* invocation i has returned
Returned(i) == runs[i].pc \in {"done", "failed"}

\* C16: with one writer, when an invocation has returned every entry of the
\* stored history from before it is in the stored history with the same field
\* values, unless the invocation saved and the entry's date was unparsable or
\* strictly older than now - 400 days at its cleanup; an invocation that
\* failed leaves the stored document as it was.
C16_EntriesOnlyPruned ==
    \A i \in DOMAIN runs :
        Returned(i) =>
            /\ \A k \in 1..Len(StoredQuotes(runs[i].store_before)) :
                  LET e == StoredQuotes(runs[i].store_before)[k]
                  IN \/ \E j \in 1..Len(StoredQuotes(s3_history)) :
                           StoredQuotes(s3_history)[j] = e
                     \/ /\ runs[i].pc = "done"
                        /\ ~NotOlderThan(e, runs[i].cleanup_clock, 400)
            /\ runs[i].pc = "failed" => s3_history = runs[i].store_before

\* C16: an invocation has saved; of the three entries stored before it the one
\* dated 400 days ago at midnight and the unparsable one are gone, the one
\* dated the same day is there with the invocation's own after it
C16_Witness ==
    /\ runs[1].pc = "done"
    /\ Len(StoredQuotes(runs[1].store_before)) = 3
    /\ runs[1].cleanup_clock.secs > 0
    /\ Offset(runs[1].cleanup_clock) = 0
    /\ StoredQuotes(s3_history) =
          <<StoredQuotes(runs[1].store_before)[3], RunEntry(runs[1])>>

\* the entry's date parses to a moment of the 365 days up to the clock
WithinCycle(e, clock) ==
    /\ NotOlderThan(e, clock, 365)
    /\ Moment(ParsedDate(e)) <= Moment(clock)

Contains(entries, e) == \E k \in 1..Len(entries) : entries[k] = e

\* what an invocation holds before its cleanup: what was stored, and its own entry
BeforeCleanup(r) == Append(StoredQuotes(r.store_before), RunEntry(r))

\* C17: the cleanup of an invocation (keep_days = 400) keeps every entry dated
\* within the 365 days up to its clock, and at every moment the stored history
\* has every entry that an invocation saved within the last 365 days.
C17_RetentionCoversCycle ==
    /\ \A i \in DOMAIN runs :
          runs[i].pc = "cleaned" =>
              \A k \in 1..Len(BeforeCleanup(runs[i])) :
                  WithinCycle(BeforeCleanup(runs[i])[k], runs[i].cleanup_clock)
                      => Contains(QuotesOf(runs[i].history), BeforeCleanup(runs[i])[k])
    /\ \A k \in 1..Len(ledger) :
          toordinal(now) - ledger[k].ordinal <= 365
              => Contains(StoredQuotes(s3_history), ledger[k].entry)

\* C17: an invocation saved 365 days after another one did, at a time of day
\* after midnight, and the stored history has the entries of both
C17_Witness ==
    /\ Len(ledger) = 2
    /\ ledger[2].ordinal - ledger[1].ordinal = 365
    /\ toordinal(now) = ledger[2].ordinal
    /\ now.secs > 0
    /\ runs[1].pc = "done"
    /\ Contains(StoredQuotes(s3_history), ledger[1].entry)
    /\ Contains(StoredQuotes(s3_history), ledger[2].entry)

\* how many of the entries carry the date text
DateCount(entries, date) ==
    Cardinality({k \in 1..Len(entries) :
                    /\ entries[k].t = "dict" /\ HasKey(entries[k], "date")
                    /\ GetKey(entries[k], "date") = PyStr(date)})

\* C19: add_quote adds an entry whether or not the history has one of that
\* date (the count of the date and the count of all entries grow by one with
\* each call), so the stored history has an entry for each invocation that saved
\* within the last 365 days, equal ones of the same day counted one by one.
C19_NoDeduplication ==
    /\ \A i \in DOMAIN runs :
          runs[i].pc = "added" =>
              /\ Len(QuotesOf(runs[i].history))
                    = Len(StoredQuotes(runs[i].store_before)) + 1
              /\ DateCount(QuotesOf(runs[i].history), strftime_ymd(runs[i].current_date))
                    = DateCount(StoredQuotes(runs[i].store_before),
                                strftime_ymd(runs[i].current_date)) + 1
    /\ \A k \in 1..Len(ledger) :
          toordinal(now) - ledger[k].ordinal <= 365 =>
              Count(StoredQuotes(s3_history), ledger[k].entry)
                  = Cardinality({j \in 1..Len(ledger) : ledger[j].entry = ledger[k].entry})

\* C19: two invocations of one day have saved, the history held an entry of
\* that day before, and the stored history now has three entries of that day
C19_Witness ==
    /\ Len(ledger) = 2
    /\ ledger[1].ordinal = ledger[2].ordinal
    /\ ledger[1].entry = ledger[2].entry
    /\ runs[1].pc = "done"
    /\ DateCount(StoredQuotes(s3_history), strftime_ymd(runs[1].current_date)) = 3
    /\ Count(StoredQuotes(s3_history), ledger[1].entry) = 2

(***************************************************************************)
(* Properties of a history stored without the 'quotes' key (SpecKeyless).  *)
(***************************************************************************)
\* the document the last load met is a JSON object without the 'quotes' key
KeylessOrigin ==
    /\ origin \in KeylessObjects
    /\ history.t = "dict"

\* the stored document is a JSON object with the 'quotes' key
StoredWithKey ==
    /\ s3_history.kind = "json"
    /\ s3_history.value.t = "object"
    /\ \E k \in 1..Len(s3_history.value.xs) : s3_history.value.xs[k].k = "quotes"

\* C21: a stored document without the 'quotes' key loads without error and is
\* read as the empty archive (count 0, empty month scan), and every document
\* saved after such a load has the 'quotes' key, whatever was called between
\* the load and the save.
C21_KeylessReadEmptyWrittenWithKey ==
    /\ tracker_outcome.op = "load_history" /\ tracker_outcome.fault = ""
         /\ origin \in KeylessObjects
         => tracker_outcome.status = "ok"
    /\ KeylessOrigin /\ appended = <<>> /\ tracker_outcome.op = "get_quote_count"
         => tracker_outcome.status = "ok" /\ tracker_outcome.n = 0
    /\ KeylessOrigin /\ appended = <<>>
         /\ tracker_outcome.op = "get_current_month_quotes"
         => scan_call.status = "ok" /\ scan_call.result = PyList(<<>>)
    /\ KeylessOrigin /\ tracker_outcome.op = "save_history"
         /\ tracker_outcome.status = "ok"
         => StoredWithKey

(***************************************************************************)
(* Properties of the reflections API (SpecApi).                            *)
(***************************************************************************)
Requested == api_call.http_method # "none"

\* the date segment of the request's path, if it has one
HasSegment == Len(api_call.path) >= 2
Segment == api_call.path[2]

\* the texts YYYY-MM-DD of the days of the calendar
CalendarDates == DOMAIN DateOrdinals

\* C22: a GET whose date segment is neither "today" nor a YYYY-MM-DD calendar
\* date is answered 400 with the invalid-date-format error and without an entry,
\* whatever the stored history is and whether or not it can be loaded.
C22_BadDateRejected ==
    /\ api_call.http_method = "GET"
    /\ HasSegment
    /\ Segment # "today"
    /\ Segment \notin CalendarDates
    => /\ api_call.response.statusCode = 400
       /\ api_call.response.error = "Invalid date format"
       /\ api_call.response.body = PyNone

\* the request got as far as reading the archive
ArchiveRead ==
    /\ api_call.http_method = "GET"
    /\ api_call.bucket_name
    /\ load_history(s3_history, api_call.fault).status = "ok"

\* the archive the request read, in archive order
ArchiveEntries == QuotesOf(load_history(s3_history, api_call.fault).history)

\* the calendar day the request asks for
TargetDay ==
    IF Segment = "today" THEN toordinal(api_call.clock) ELSE DateOrdinals[Segment]

\* the positions of the archive entries dated that day
OfTargetDay ==
    {k \in 1..Len(ArchiveEntries) :
        /\ DateParses(ArchiveEntries[k])
        /\ toordinal(ParsedDate(ArchiveEntries[k])) = TargetDay}

FirstOfTargetDay ==
    ArchiveEntries[CHOOSE k \in OfTargetDay : \A j \in OfTargetDay : k <= j]

C24_ApiReadOnly ==
    [][api_call' # api_call =>
          /\ s3_history' = s3_history
          /\ api_call'.puts = 0
          /\ api_call'.http_method = "OPTIONS" =>
                /\ api_call'.gets = 0
                /\ api_call'.response.statusCode = 200]_vars

\* C24: a GET that read the stored history and answered from it
C24_Witness ==
    /\ api_call.http_method = "GET"
    /\ api_call.gets = 1
    /\ api_call.puts = 0
    /\ api_call.response.statusCode = 200
    /\ s3_history.kind = "json"

(***************************************************************************)
(* Properties of the themes (SpecThemes) and of the email validation       *)
(* (SpecEmail).                                                            *)
(***************************************************************************)
\* C25: get_monthly_theme returns a theme with a non-empty name and a non-empty
\* description for every month 1..12 and fails with ValueError for every month
\* below 1 or above 12; get_theme_name and get_theme_description return the
\* name and the description of that theme.
C25_ThemeForEveryMonth ==
    /\ theme_call.op = "get_monthly_theme" /\ theme_call.month \in 1..12
         => /\ theme_call.status = "ok"
            /\ Len(theme_call.name) > 0
            /\ Len(theme_call.description) > 0
    /\ theme_call.op = "get_monthly_theme" /\ theme_call.month \notin 1..12
         => theme_call.status = "ValueError"
    /\ theme_call.op = "get_theme_name" /\ theme_call.month \in 1..12
         => /\ theme_call.status = "ok"
            /\ theme_call.name = MONTHLY_THEMES[theme_call.month].name
    /\ theme_call.op = "get_theme_description" /\ theme_call.month \in 1..12
         => /\ theme_call.status = "ok"
            /\ theme_call.description = MONTHLY_THEMES[theme_call.month].description

\* C25: get_monthly_theme was called with month 0 and raised ValueError
C25_Witness ==
    /\ theme_call.op = "get_monthly_theme"
    /\ theme_call.month = 0
    /\ theme_call.status = "ValueError"

\* the words of a section of the reflection, none when the section is missing
SectionWords(reflection, key) ==
    IF key \in DOMAIN reflection THEN reflection[key].words ELSE 0

TotalWords(reflection) ==
    SectionWords(reflection, "understanding") + SectionWords(reflection, "connection")
        + SectionWords(reflection, "practice")

\* C26: is_valid is true exactly when the quote and the attribution are not
\* blank, each of the three sections is not blank, and the sections have at
\* least 150 words in total.
C26_IsValidIff ==
    email_check.called =>
        (email_check.validation.is_valid
            <=> /\ email_check.quote.words > 0
                /\ email_check.attribution.words > 0
                /\ \A key \in {"understanding", "connection", "practice"} :
                      SectionWords(email_check.reflection, key) > 0
                /\ TotalWords(email_check.reflection) >= 150)

\* C26: a reflection of exactly 150 words was found valid
C26_Witness ==
    /\ email_check.called
    /\ email_check.validation.is_valid
    /\ TotalWords(email_check.reflection) = 150

(***************************************************************************)
(* Properties of the daily send around its emails (SpecSend, SpecDaily).   *)
(***************************************************************************)
\* the invocation has saved the history
Saved(i) == runs[i].pc \in {"saved", "done"}

\* the invocation has attempted a send
HasSent(i) == sending[i].attempts # <<>>

\* C27: the history is saved before any email is sent, by a single put; an
\* invocation whose load_history or save_history failed sends no email and
\* returns 500; once the save has succeeded today's entry is in the stored
\* history, also when every send fails.
C27_SavedBeforeSending ==
    /\ [](\A i \in DOMAIN runs :
            /\ HasSent(i) => Saved(i)
            /\ runs[i].pc = "failed" => runs[i].status = 500 /\ ~HasSent(i)
            /\ Saved(i) => Contains(StoredQuotes(s3_history), RunEntry(runs[i]))
            /\ runs[i].pc = "done" => runs[i].status = 200)
    /\ [][/\ Len(log) <= Len(log') /\ Len(log') <= Len(log) + 1
          /\ Len(ledger') <= started'
          /\ \A i \in DOMAIN runs :
               /\ sending'[i].attempts # sending[i].attempts /\ HasSent(i)'
                    => s3_history' = s3_history /\ log' = log
               /\ log' # log /\ log'[Len(log')].run = i /\ log'[Len(log')].op = "save"
                    => ~HasSent(i)]_vars

\* C27: an invocation has returned 200 with every one of its two sends failed,
\* and its entry is in the stored history
C27_Witness ==
    /\ runs[1].pc = "done"
    /\ runs[1].status = 200
    /\ Len(sending[1].recipients) = 2
    /\ sending[1].failure_count = 2
    /\ Contains(StoredQuotes(s3_history), RunEntry(runs[1]))

\* what an invocation met keeps it from reaching the history step
FailsEarly(i) ==
    LET met == sending[i].met
    IN \/ ~met.env
       \/ met.lookup # "ok"
       \/ met.config.kind # "json"
       \/ \A k \in 1..Len(met.config.recipients) :
             met.config.recipients[k] \in {"", " "}
       \/ runs[i].reflection = NoReflection

\* C28: an invocation that lacks an environment variable, whose quote lookup
\* fails, whose recipient list is empty or unreadable, or whose reflection is
\* None, writes nothing to the history key, sends no email and returns 500.
C28_EarlyFailureLeavesArchive ==
    /\ [](\A i \in DOMAIN runs :
            runs[i].pc # "idle" /\ FailsEarly(i)
                => /\ runs[i].pc = "failed"
                   /\ runs[i].status = 500
                   /\ ~HasSent(i))
    /\ [][\A i \in DOMAIN runs :
            runs'[i] # runs[i] /\ FailsEarly(i)'
                => /\ s3_history' = s3_history
                   /\ log' = log
                   /\ ledger' = ledger]_vars

\* C28: an invocation found an empty recipient list and returned 500 while the
\* stored history has the entry of an earlier invocation only
C28_Witness ==
    /\ runs[1].pc = "failed"
    /\ runs[1].status = 500
    /\ sending[1].met.env
    /\ sending[1].met.lookup = "ok"
    /\ sending[1].met.config = RecipientConfig("json", <<>>)
    /\ sending[1].error = "No recipients configured"
    /\ started = 2
    /\ Len(ledger) = 1

\* the attempts that succeeded, the attempts that failed
Successes(i) == {k \in 1..Len(sending[i].attempts) : sending[i].attempts[k].ok}
Failures(i) == {k \in 1..Len(sending[i].attempts) : ~sending[i].attempts[k].ok}

\* C30: once the history is saved every recipient is attempted exactly once in
\* list order, a send that fails does not end the loop, success_count plus
\* failure_count is the number of recipients, and the invocation returns 200
\* whatever the number of failures.
C30_FanOut ==
    \A i \in DOMAIN runs :
        /\ Len(sending[i].attempts) <= Len(sending[i].recipients)
        /\ \A k \in 1..Len(sending[i].attempts) :
              sending[i].attempts[k].recipient = sending[i].recipients[k]
        /\ sending[i].success_count = Cardinality(Successes(i))
        /\ sending[i].failure_count = Cardinality(Failures(i))
        /\ HasSent(i) /\ Len(sending[i].attempts) < Len(sending[i].recipients)
              => runs[i].pc = "saved"
        /\ runs[i].pc = "done"
              => /\ Len(sending[i].attempts) = Len(sending[i].recipients)
                 /\ sending[i].success_count + sending[i].failure_count
                       = Len(sending[i].recipients)
                 /\ runs[i].status = 200

\* C30: the first of two sends failed, the second was attempted and succeeded,
\* and the invocation returned 200 with the counts 1 and 1
C30_Witness ==
    /\ runs[1].pc = "done"
    /\ runs[1].status = 200
    /\ Len(sending[1].attempts) = 2
    /\ ~sending[1].attempts[1].ok
    /\ sending[1].attempts[2].ok
    /\ sending[1].success_count = 1
    /\ sending[1].failure_count = 1

\* C29: after an invocation that returned 200 the stored history ends with an
\* entry dated the invocation's day carrying the quote and attribution of that
\* day, and every stored entry has a date that parses and is not older than
\* the invocation's now - 400 days.
C29_StoredAfterSuccess ==
    \A i \in DOMAIN runs :
        runs[i].pc = "done" /\ runs[i].status = 200 =>
            LET stored == StoredQuotes(s3_history)
                r == runs[i]
            IN /\ stored # <<>>
               /\ GetKey(LastOf(stored), "date") = PyStr(strftime_ymd(r.current_date))
               /\ GetKey(LastOf(stored), "quote") = PyStr(quote_of(r.current_date))
               /\ GetKey(LastOf(stored), "attribution")
                     = PyStr(attribution_of(r.current_date))
               /\ \A k \in 1..Len(stored) : NotOlderThan(stored[k], r.cleanup_clock, 400)

\* C29: an invocation returned 200 having pruned the history it loaded: of the
\* three entries stored before, one is left, followed by the new one
C29_Witness ==
    /\ runs[1].pc = "done"
    /\ runs[1].status = 200
    /\ Len(StoredQuotes(runs[1].store_before)) = 3
    /\ Len(StoredQuotes(s3_history)) = 2
    /\ LastOf(StoredQuotes(s3_history)) = RunEntry(runs[1])

====
